---- MODULE Spec2Model ----
(***************************************************************************)
(* Model of tailnginx: pkg/metrics.RateTracker (a circular buffer of       *)
(* time-bucketed request counters with Record/RecordN/GetStats/Reset),     *)
(* pkg/tailer.TailLines (the goroutine that feeds log lines into a         *)
(* channel) and the list handling of the dashboard in ui (processBatch,    *)
(* applyFilters, the filter keys).                                         *)
(*                                                                         *)
(* Time is counted in whole ticks since Go's zero time.Time, so the value  *)
(* 0 is exactly the instant for which Time.IsZero() is true.  The wall     *)
(* clock (time.Now) runs in Epoch..MaxTime, far away from the zero time;   *)
(* event timestamps are either in that range or the zero time itself (the  *)
(* parser leaves Visitor.Time zero when the time field does not parse).    *)
(* float64 results are modelled as reduced fractions [num, den].           *)
(***************************************************************************)
EXTENDS Integers, Sequences, FiniteSets, TLC

\* ---------------------------------------------------------------- bounds
Epoch      == 10   \* first wall-clock instant considered
MaxTime    == 15   \* last instant (clock and event timestamps)
MaxWindow  == 2    \* largest windowSize passed to NewRateTracker
MaxCount   == 1    \* largest n passed to RecordN
MaxRecords == 3    \* number of Record/RecordN calls explored
NWriters   == 2    \* concurrent writers (TestConcurrency uses 10)
MRecords   == 2    \* Record calls per writer (TestConcurrency uses 100)
MaxFile    == 3    \* most lines the log file ever holds
LastLines  == 2    \* lines readLastNLines is asked for (TailLines passes 500)
OutCap     == 2    \* capacity of the channel out (TailLines makes 1000)
MaxBatch   == 2    \* most visitors in one batch (readLines sends up to 100)
VisitorCap == 2    \* most entries kept in allVisitors (processBatch: 10000)

BucketSizes          == {2}          \* bucketSize values, in ticks
UnvalidatedSizes     == {-2, 0, 2}   \* NewRateTracker accepts any Duration
EventTimes           == {0} \cup (Epoch..MaxTime)
Counts               == (-1)..MaxCount
Writers              == 1..NWriters
\* timestamps of parsed log lines: none (the zero time), old, recent
VisitorTimes         == {0, MaxTime - 6, MaxTime - 2}
Statuses             == {200, 404}
Visitors             == [Time : VisitorTimes, Status : Statuses]

\* var timeWindowPresets, in minutes; 0 stands for "all time"
timeWindowPresets    == <<5, 30, 60, 180, 720, 1440, 10080, 43200, 0>>

VARIABLES
    bucketSize,    \* rt.bucketSize
    windowSize,    \* rt.windowSize
    buckets,       \* rt.buckets: [0..windowSize-1 -> Int]
    timestamps,    \* rt.timestamps: [0..windowSize-1 -> Nat], 0 = zero Time
    currentIndex,  \* rt.currentIndex
    totalCount,    \* rt.totalCount
    now,           \* the wall clock read by time.Now()
    stats,         \* value returned by the last GetStats call
    lastOp,        \* the operation that ran last
    panicked,      \* a call ended in a run-time panic
    calls,         \* number of Record/RecordN calls made so far
    sumN,          \* sum of the n recorded since construction / last Reset
    minT,          \* earliest event time recorded since then (-1: none)
    maxT,          \* latest event time recorded since then (-1: none)
    mu,            \* rt.mu: [writer |-> 0 or the holder, readers |-> count]
    wpc,           \* per writer: position inside its current Record call
    wbucket,       \* per writer: value of rt.buckets[currentIndex] it loaded
    wtotal,        \* per writer: value of rt.totalCount it loaded
    wdone,         \* per writer: number of completed Record calls
    rpc,           \* reader goroutine: position inside GetStats
    finalRead,     \* the last GetStats read began after all writers ended
    log,           \* the RecordN calls made so far, as <<t, n>>, in call order
    xpc,           \* resetter goroutine: position inside Reset
    fromEnd,       \* TailLines argument fromEnd
    fileOld,       \* lines the log file held when TailLines was called
    fileLen,       \* lines the log file holds now
    tpc,           \* tailer goroutine: position inside TailLines' goroutine
    tailPos,       \* next line of the file that t.Lines will hand over
    tline,         \* the line taken from t.Lines and not yet sent
    out,           \* buffered channel out: the lines waiting in it
    outClosed,     \* close(out) has run
    doneClosed,    \* the caller closed done
    linesClosed,   \* the tail library closed t.Lines
    hist,          \* lines readLastNLines still has to send
    delivered,     \* lines the consumer received from out, in order
    allVisitors,   \* ta.allVisitors
    visitors,      \* ta.visitors
    dataChanged,   \* ta.dataChanged
    statusFilter,  \* ta.statusFilter
    timeWindow,    \* ta.timeWindow, in ticks
    timeWindowIndex, \* ta.timeWindowIndex
    batch,         \* argument of processBatch when it ran last, else <<>>
    refreshRate,   \* ta.refreshRate, in milliseconds
    paused,        \* ta.paused
    tickerInterval, \* period of updateLoop's ticker in milliseconds, 0
                   \* before updateLoop has created it
    rbatch,        \* readLines: its local slice batch
    rlpc,          \* readLines: "idle" not started, "run" in its loop, "done"
    tickReady,     \* readLines: batchTicker.C holds a tick
    ulpc,          \* updateLoop: "wait" for a tick, or "redraw" decided
    drawn,         \* what the screen shows: the filters and visitors that
                   \* renderAll read when it ran last
    rateText,      \* the rate part of the overview line as rendered last
    tamu,          \* ta.mu, a sync.RWMutex
    rtmu,          \* rateTracker.mu as the dashboard's goroutines use it
    lpc,           \* where each goroutine of the dashboard is in its
                   \* locking
    pbLeft,        \* processBatch: visitors of the batch not recorded yet
    updates        \* callbacks queued by QueueUpdateDraw and not run yet

cfgVars  == <<bucketSize, windowSize>>
rtVars   == <<buckets, timestamps, currentIndex, totalCount>>
apiVars  == <<now, stats, lastOp, panicked, calls, sumN, minT, maxT>>
concVars == <<mu, wpc, wbucket, wtotal, wdone, rpc, finalRead>>
tailVars == <<fromEnd, fileOld, fileLen, tpc, tailPos, tline, out, outClosed,
              doneClosed, linesClosed, hist, delivered>>
uiVars   == <<allVisitors, visitors, dataChanged, statusFilter, timeWindow,
              timeWindowIndex, batch>>
ctlVars  == <<refreshRate, paused, tickerInterval>>
lockVars == <<tamu, rtmu, lpc, pbLeft, updates>>
appVars  == <<rbatch, rlpc, tickReady, ulpc, drawn, rateText, lockVars>>
extVars  == <<log, xpc, tailVars, uiVars, ctlVars, appVars>>
vars     == <<cfgVars, rtVars, apiVars, concVars, extVars>>

\* ------------------------------------------------------- float64 values
RECURSIVE GCD(_, _)
GCD(a, b) == IF b = 0 THEN a ELSE GCD(b, a % b)

Abs(x) == IF x < 0 THEN -x ELSE x

Sign(x) == IF x > 0 THEN 1 ELSE IF x < 0 THEN -1 ELSE 0

\* float64(a) / float64(b) for integers a, b: a reduced fraction with a
\* positive denominator; den = 0 encodes +Inf (num 1), -Inf (num -1), NaN.
FDiv(a, b) ==
    IF b = 0 THEN [num |-> Sign(a), den |-> 0]
    ELSE LET g == GCD(Abs(a), Abs(b))
             s == IF b < 0 THEN -1 ELSE 1
         IN  [num |-> s * (a \div g), den |-> s * (b \div g)]

FZero == [num |-> 0, den |-> 1]

\* a > k and a < k for a float64 a and an integer k; false for NaN
FGt(a, k) == IF a.den = 0 THEN a.num > 0 ELSE a.num > k * a.den

FLt(a, k) == IF a.den = 0 THEN a.num < 0 ELSE a.num < k * a.den

\* the zero value Stats{}
ZeroStats ==
    [Current |-> FZero, Peak |-> FZero, Average |-> FZero,
     Total |-> 0, TrendChange |-> FZero]

\* ------------------------------------------------------------ time.Time
IsZero(t) == t = 0

\* a slip: the time is not rounded down
TruncateNot(t, d) == t

\* t.Truncate(d): round down to a multiple of d since the zero time;
\* for d <= 0 the time is returned unchanged.
Truncate(t, d) == IF d <= 0 THEN t ELSE t - (t % d)

\* ------------------------------------------------------------ the tracker
RT ==
    [buckets |-> buckets, timestamps |-> timestamps,
     currentIndex |-> currentIndex, totalCount |-> totalCount,
     bucketSize |-> bucketSize, windowSize |-> windowSize]

NewRateTracker(bs, w) ==
    [buckets |-> [i \in 0..(w - 1) |-> 0],
     timestamps |-> [i \in 0..(w - 1) |-> 0],
     currentIndex |-> 0, totalCount |-> 0,
     bucketSize |-> bs, windowSize |-> w]

\* RecordN, the guard of the advance
NeedAdvance(rt, bucketTime) ==
    LET cur == rt.timestamps[rt.currentIndex]
    IN  /\ (IsZero(cur) \/ bucketTime > cur)
        /\ ~IsZero(cur)
        /\ bucketTime - cur >= rt.bucketSize

\* a slip: the overwritten slot's count is not taken out of totalCount
PositionKeepTotal(rt, bucketTime) ==
    IF NeedAdvance(rt, bucketTime)
    THEN LET ni == (rt.currentIndex + 1) % rt.windowSize
         IN  [rt EXCEPT !.currentIndex = ni,
                        !.buckets[ni] = 0,
                        !.timestamps[ni] = bucketTime]
    ELSE rt

\* a slip: the slot the cursor lands on keeps its old count
PositionNoClear(rt, bucketTime) ==
    IF NeedAdvance(rt, bucketTime)
    THEN LET ni == (rt.currentIndex + 1) % rt.windowSize
         IN  [rt EXCEPT !.currentIndex = ni,
                        !.timestamps[ni] = bucketTime]
    ELSE rt

\* a slip: the cursor moves by the number of bucket periods elapsed
PositionByElapsed(rt, bucketTime) ==
    IF NeedAdvance(rt, bucketTime)
    THEN LET cur == rt.timestamps[rt.currentIndex]
             ni  == (rt.currentIndex + ((bucketTime - cur) \div rt.bucketSize))
                        % rt.windowSize
         IN  [rt EXCEPT !.currentIndex = ni,
                        !.totalCount = rt.totalCount - rt.buckets[ni],
                        !.buckets[ni] = 0,
                        !.timestamps[ni] = bucketTime]
    ELSE rt

\* RecordN, "Check if we need to advance to a new bucket"
Position(rt, bucketTime) ==
    IF NeedAdvance(rt, bucketTime)
    THEN LET ni == (rt.currentIndex + 1) % rt.windowSize
         IN  [rt EXCEPT !.currentIndex = ni,
                        !.totalCount = rt.totalCount - rt.buckets[ni],
                        !.buckets[ni] = 0,
                        !.timestamps[ni] = bucketTime]
    ELSE rt

\* a slip: the count is stored instead of added
AddCountOverwriting(rt, bucketTime, n) ==
    [rt EXCEPT !.buckets[rt.currentIndex] = n,
               !.totalCount = n,
               !.timestamps[rt.currentIndex] = bucketTime]

\* RecordN, "Add to current bucket"
AddCount(rt, bucketTime, n) ==
    [rt EXCEPT !.buckets[rt.currentIndex] = rt.buckets[rt.currentIndex] + n,
               !.totalCount = rt.totalCount + n,
               !.timestamps[rt.currentIndex] = bucketTime]

\* the state RecordN(t, n) leaves, for a tracker with at least one slot
RecordNResult(rt, t, n) ==
    LET bucketTime == Truncate(t, rt.bucketSize)
    IN  AddCount(Position(rt, bucketTime), bucketTime, n)

\* indexing rt.timestamps[rt.currentIndex] panics on an empty slice
RecordNPanics(rt) == rt.currentIndex >= rt.windowSize

\* a slip: the cursor is not rewound
ResetKeepIndex(rt) ==
    [rt EXCEPT !.buckets = [i \in 0..(rt.windowSize - 1) |-> 0],
               !.timestamps = [i \in 0..(rt.windowSize - 1) |-> 0],
               !.totalCount = 0]

ResetResult(rt) ==
    [rt EXCEPT !.buckets = [i \in 0..(rt.windowSize - 1) |-> 0],
               !.timestamps = [i \in 0..(rt.windowSize - 1) |-> 0],
               !.currentIndex = 0,
               !.totalCount = 0]

\* ---------------------------------------------------------------- GetStats
\* age := now.Sub(rt.timestamps[i])
Age(rt, nowv, i) == nowv - rt.timestamps[i]

\* a slip: the age of a slot is not checked against the window
ValidBucketAnyAge(rt, nowv, i) == ~IsZero(rt.timestamps[i])

\* a slot the loop of GetStats does not skip
ValidBucket(rt, nowv, i) ==
    /\ ~IsZero(rt.timestamps[i])
    /\ ~(Age(rt, nowv, i) > rt.bucketSize * rt.windowSize)

\* halfWindowDuration := rt.bucketSize * time.Duration(rt.windowSize/2)
HalfWindowDuration(rt) == rt.bucketSize * (rt.windowSize \div 2)

\* one iteration of the loop over the slots
ScanStep(rt, nowv, i, acc) ==
    IF ~ValidBucket(rt, nowv, i) THEN acc
    ELSE [validBuckets  |-> acc.validBuckets + 1,
          peak          |-> IF rt.buckets[i] > acc.peak
                            THEN rt.buckets[i] ELSE acc.peak,
          recentTotal   |-> IF Age(rt, nowv, i) <= HalfWindowDuration(rt)
                            THEN acc.recentTotal + rt.buckets[i]
                            ELSE acc.recentTotal,
          previousTotal |-> IF Age(rt, nowv, i) <= HalfWindowDuration(rt)
                            THEN acc.previousTotal
                            ELSE acc.previousTotal + rt.buckets[i]]

\* for i := 0; i < rt.windowSize; i++ { ... }
RECURSIVE ScanBuckets(_, _, _, _)
ScanBuckets(rt, nowv, i, acc) ==
    IF i >= rt.windowSize THEN acc
    ELSE ScanBuckets(rt, nowv, i + 1, ScanStep(rt, nowv, i, acc))

ScanStart ==
    [validBuckets |-> 0, peak |-> 0, recentTotal |-> 0, previousTotal |-> 0]

\* a slip: the trend is computed also when the previous half is empty
TrendOfUnguarded(recentTotal, previousTotal) ==
    FDiv((recentTotal - previousTotal) * 100, previousTotal)

\* trendChange: (recent - previous) / previous * 100 when previous > 0
TrendOf(recentTotal, previousTotal) ==
    IF previousTotal > 0
    THEN FDiv((recentTotal - previousTotal) * 100, previousTotal)
    ELSE FZero

\* a slip: the result is built also when no slot is valid
GetStatsResultAlways(rt, nowv) ==
    IF rt.totalCount = 0 THEN ZeroStats
    ELSE LET acc == ScanBuckets(rt, nowv, 0, ScanStart)
         IN  [Current     |-> FDiv(rt.buckets[rt.currentIndex],
                                   rt.bucketSize),
              Peak        |-> FDiv(acc.peak, rt.bucketSize),
              Average     |-> FDiv(rt.totalCount,
                                   acc.validBuckets * rt.bucketSize),
              Total       |-> rt.totalCount,
              TrendChange |-> TrendOf(acc.recentTotal, acc.previousTotal)]

\* a slip: Total and Average are taken from the counts of the valid slots
GetStatsResultSummingValid(rt, nowv) ==
    IF rt.totalCount = 0 THEN ZeroStats
    ELSE LET acc == ScanBuckets(rt, nowv, 0, ScanStart)
             sum == acc.recentTotal + acc.previousTotal
         IN  IF acc.validBuckets = 0 THEN ZeroStats
             ELSE [Current     |-> FDiv(rt.buckets[rt.currentIndex],
                                        rt.bucketSize),
                   Peak        |-> FDiv(acc.peak, rt.bucketSize),
                   Average     |-> FDiv(sum, acc.validBuckets * rt.bucketSize),
                   Total       |-> sum,
                   TrendChange |-> TrendOf(acc.recentTotal,
                                           acc.previousTotal)]

\* the value GetStats returns when the clock reads nowv
GetStatsResult(rt, nowv) ==
    IF rt.totalCount = 0 THEN ZeroStats
    ELSE LET acc == ScanBuckets(rt, nowv, 0, ScanStart)
         IN  IF acc.validBuckets = 0 THEN ZeroStats
             ELSE [Current     |-> FDiv(rt.buckets[rt.currentIndex],
                                        rt.bucketSize),
                   Peak        |-> FDiv(acc.peak, rt.bucketSize),
                   Average     |-> FDiv(rt.totalCount,
                                        acc.validBuckets * rt.bucketSize),
                   Total       |-> rt.totalCount,
                   TrendChange |-> TrendOf(acc.recentTotal,
                                           acc.previousTotal)]

\* a slip: GetStats evicts the slots that aged out while it scans them
GetStatsFrameEvicting(rt, nowv) ==
    [rt EXCEPT !.buckets = [i \in 0..(rt.windowSize - 1) |->
                              IF ValidBucket(rt, nowv, i)
                              THEN rt.buckets[i] ELSE 0],
               !.timestamps = [i \in 0..(rt.windowSize - 1) |->
                              IF ValidBucket(rt, nowv, i)
                              THEN rt.timestamps[i] ELSE 0]]

\* the tracker GetStats leaves behind: it assigns to no field of rt
GetStatsFrame(rt, nowv) == rt

\* ------------------------------------------------------ sequential calls
SetTracker(rt) ==
    /\ buckets' = rt.buckets
    /\ timestamps' = rt.timestamps
    /\ currentIndex' = rt.currentIndex
    /\ totalCount' = rt.totalCount

Min(a, b) == IF a < b THEN a ELSE b
Max(a, b) == IF a > b THEN a ELSE b

ConcIdle ==
    /\ mu = [writer |-> 0, readers |-> 0]
    /\ wpc = [w \in Writers |-> "call"]
    /\ wbucket = [w \in Writers |-> 0]
    /\ wtotal = [w \in Writers |-> 0]
    /\ wdone = [w \in Writers |-> 0]
    /\ rpc = "idle"
    /\ finalRead = FALSE

ApiStart ==
    /\ now \in Epoch..MaxTime
    /\ stats = ZeroStats
    /\ lastOp = "NewRateTracker"
    /\ panicked = FALSE
    /\ calls = 0
    /\ sumN = 0
    /\ minT = -1
    /\ maxT = -1

\* rt := NewRateTracker(bs, w) for some bs, w
Construct(sizes, windows) ==
    \E bs \in sizes, w \in windows :
        /\ bucketSize = bs
        /\ windowSize = w
        /\ buckets = NewRateTracker(bs, w).buckets
        /\ timestamps = NewRateTracker(bs, w).timestamps
        /\ currentIndex = NewRateTracker(bs, w).currentIndex
        /\ totalCount = NewRateTracker(bs, w).totalCount

\* no RecordN call logged yet, the resetter goroutine not started
HistIdle ==
    /\ log = <<>>
    /\ xpc = "call"

\* no TailLines call made
TailIdle ==
    /\ fromEnd = FALSE
    /\ fileOld = 0
    /\ fileLen = 0
    /\ tpc = "idle"
    /\ tailPos = 0
    /\ tline = 0
    /\ out = <<>>
    /\ outClosed = FALSE
    /\ doneClosed = FALSE
    /\ linesClosed = FALSE
    /\ hist = <<>>
    /\ delivered = <<>>

\* the dashboard fields as NewTviewApp sets them
NewTviewApp ==
    /\ allVisitors = <<>>
    /\ visitors = <<>>
    /\ dataChanged = FALSE
    /\ statusFilter = 0
    /\ timeWindow = 0
    /\ timeWindowIndex = Len(timeWindowPresets) - 1
    /\ batch = <<>>

\* flag.IntVar(&refreshMs, "refresh", 1000, ...): the default of -refresh
DefaultRefreshMs == 1000

\* config.MinRefreshRate, config.MaxRefreshRate, in milliseconds
MinRefreshRate == 100
MaxRefreshRate == 10000

\* main: cfg.RefreshRate from -refresh, then the two clamps
ClampRefresh(refreshMs) ==
    IF refreshMs < MinRefreshRate THEN MinRefreshRate
    ELSE IF refreshMs > MaxRefreshRate THEN MaxRefreshRate
    ELSE refreshMs

\* the goroutines that use ta.mu: readLines in processBatch, updateLoop,
\* and the event loop that runs the key handler and the queued callbacks
Goroutines == {"ingest", "update", "ui"}

\* a sync.RWMutex nobody holds: wm is the writer that has announced
\* itself, held whether it has the lock, r the readers holding it, rw the
\* readers that called RLock after a writer announced itself
FreeMutex == [wm |-> "", held |-> FALSE, r |-> {}, rw |-> {}]

\* NewTviewApp(lines, path, rate, geo): refreshRate as passed, paused at
\* its zero value, updateLoop and readLines not started
NewControls(rate) ==
    /\ refreshRate = rate
    /\ paused = FALSE
    /\ tickerInterval = 0
    /\ rbatch = <<>>
    /\ rlpc = "idle"
    /\ tickReady = FALSE
    /\ ulpc = "wait"
    /\ drawn = <<0, 0, <<>>>>
    /\ rateText = ""
    /\ tamu = FreeMutex
    /\ rtmu = FreeMutex
    /\ lpc = [g \in Goroutines |-> "idle"]
    /\ pbLeft = 0
    /\ updates = 0

Init ==
    /\ Construct(BucketSizes, 1..MaxWindow) /\ ApiStart /\ ConcIdle
    /\ HistIdle /\ TailIdle /\ NewTviewApp
    /\ NewControls(ClampRefresh(DefaultRefreshMs))

\* rt.RecordN(t, n)
RecordN(t, n) ==
    /\ ~panicked
    /\ calls < MaxRecords
    /\ calls' = calls + 1
    /\ lastOp' = "RecordN"
    /\ stats' = ZeroStats
    /\ IF RecordNPanics(RT)
       THEN /\ panicked' = TRUE
            /\ UNCHANGED <<rtVars, sumN, minT, maxT>>
       ELSE /\ SetTracker(RecordNResult(RT, t, n))
            /\ sumN' = sumN + n
            /\ minT' = IF minT = -1 THEN t ELSE Min(minT, t)
            /\ maxT' = IF maxT = -1 THEN t ELSE Max(maxT, t)
            /\ UNCHANGED panicked
    /\ UNCHANGED <<extVars, cfgVars, now, concVars>>

\* rt.Record(t)
Record(t) == RecordN(t, 1)

\* rt.GetStats()
GetStats ==
    /\ ~panicked
    /\ stats' = GetStatsResult(RT, now)
    /\ SetTracker(GetStatsFrame(RT, now))
    /\ lastOp' = "GetStats"
    /\ UNCHANGED <<extVars, cfgVars, now, panicked, calls, sumN, minT, maxT, concVars>>

\* rt.Reset()
Reset ==
    /\ ~panicked
    /\ SetTracker(ResetResult(RT))
    /\ lastOp' = "Reset"
    /\ stats' = ZeroStats
    /\ sumN' = 0
    /\ minT' = -1
    /\ maxT' = -1
    /\ UNCHANGED <<extVars, cfgVars, now, panicked, calls, concVars>>

\* the wall clock moves on
Tick ==
    /\ ~panicked
    /\ now < MaxTime
    /\ now' = now + 1
    /\ lastOp' = "Tick"
    /\ stats' = ZeroStats
    /\ UNCHANGED <<extVars, cfgVars, rtVars, panicked, calls, sumN, minT, maxT, concVars>>

DoRecordN == \E t \in EventTimes, n \in Counts : RecordN(t, n)
DoRecord  == \E t \in EventTimes : Record(t)

Next == DoRecord \/ DoRecordN \/ GetStats \/ Reset \/ Tick

Spec == Init /\ [][Next]_vars

\* trackers built from unvalidated constructor arguments
InitUnvalidated ==
    /\ Construct(UnvalidatedSizes, 0..MaxWindow) /\ ApiStart /\ ConcIdle
    /\ HistIdle /\ TailIdle /\ NewTviewApp
    /\ NewControls(ClampRefresh(DefaultRefreshMs))

SpecUnvalidated == InitUnvalidated /\ [][Next]_vars

\* ------------------------------------------------- concurrent goroutines
\* sync.RWMutex: Lock succeeds when nobody holds the mutex in either mode
LockAvailableUnguarded(m) == TRUE

LockAvailable(m) == m.writer = 0 /\ m.readers = 0

\* a slip: RLock does not wait for the writer
RLockAvailableUnguarded(m) == TRUE

\* sync.RWMutex: RLock succeeds when no writer holds the mutex
RLockAvailable(m) == m.writer = 0

AllWritersDone == \A w \in Writers : wpc[w] = "done"

\* a writer goroutine calls rt.Record(now): rt.mu.Lock()
WLock(w) ==
    /\ wpc[w] = "call"
    /\ LockAvailable(mu)
    /\ mu' = [mu EXCEPT !.writer = w]
    /\ wpc' = [wpc EXCEPT ![w] = "locked"]
    /\ UNCHANGED <<extVars, cfgVars, rtVars, apiVars, wbucket, wtotal, wdone, rpc,
                   finalRead>>

\* ... bucketTime := t.Truncate(..) and the advance to a new bucket
WPosition(w) ==
    /\ wpc[w] = "locked"
    /\ SetTracker(Position(RT, Truncate(now, bucketSize)))
    /\ wpc' = [wpc EXCEPT ![w] = "positioned"]
    /\ UNCHANGED <<extVars, cfgVars, apiVars, mu, wbucket, wtotal, wdone, rpc,
                   finalRead>>

\* ... the reads of rt.buckets[rt.currentIndex] += n and rt.totalCount += n
WLoad(w) ==
    /\ wpc[w] = "positioned"
    /\ wbucket' = [wbucket EXCEPT ![w] = buckets[currentIndex]]
    /\ wtotal' = [wtotal EXCEPT ![w] = totalCount]
    /\ wpc' = [wpc EXCEPT ![w] = "loaded"]
    /\ UNCHANGED <<extVars, cfgVars, rtVars, apiVars, mu, wdone, rpc, finalRead>>

\* ... the write of rt.buckets[rt.currentIndex] += n
WStoreBucket(w) ==
    /\ wpc[w] = "loaded"
    /\ buckets' = [buckets EXCEPT ![currentIndex] = wbucket[w] + 1]
    /\ wpc' = [wpc EXCEPT ![w] = "bucketStored"]
    /\ UNCHANGED <<extVars, cfgVars, timestamps, currentIndex, totalCount, apiVars,
                   mu, wbucket, wtotal, wdone, rpc, finalRead>>

\* ... the writes of rt.totalCount += n and rt.timestamps[..] = bucketTime
WStoreTotal(w) ==
    /\ wpc[w] = "bucketStored"
    /\ totalCount' = wtotal[w] + 1
    /\ timestamps' = [timestamps EXCEPT
                        ![currentIndex] = Truncate(now, bucketSize)]
    /\ wpc' = [wpc EXCEPT ![w] = "stored"]
    /\ UNCHANGED <<extVars, cfgVars, buckets, currentIndex, apiVars, mu, wbucket,
                   wtotal, wdone, rpc, finalRead>>

\* ... the deferred rt.mu.Unlock(); the writer goes on to its next call
WUnlock(w) ==
    /\ wpc[w] = "stored"
    /\ mu' = [mu EXCEPT !.writer = 0]
    /\ wdone' = [wdone EXCEPT ![w] = wdone[w] + 1]
    /\ wpc' = [wpc EXCEPT ![w] = IF wdone[w] + 1 >= MRecords
                                 THEN "done" ELSE "call"]
    /\ UNCHANGED <<extVars, cfgVars, rtVars, apiVars, wbucket, wtotal, rpc, finalRead>>

\* the reader goroutine calls rt.GetStats(): rt.mu.RLock()
RLock ==
    /\ rpc = "idle"
    /\ RLockAvailable(mu)
    /\ mu' = [mu EXCEPT !.readers = mu.readers + 1]
    /\ rpc' = "rlocked"
    /\ UNCHANGED <<extVars, cfgVars, rtVars, apiVars, wpc, wbucket, wtotal, wdone,
                   finalRead>>

\* ... the body of GetStats
RRead ==
    /\ rpc = "rlocked"
    /\ stats' = GetStatsResult(RT, now)
    /\ lastOp' = "GetStats"
    /\ finalRead' = AllWritersDone
    /\ rpc' = "read"
    /\ UNCHANGED <<extVars, cfgVars, rtVars, now, panicked, calls, sumN, minT, maxT,
                   mu, wpc, wbucket, wtotal, wdone>>

\* ... the deferred rt.mu.RUnlock()
RUnlock ==
    /\ rpc = "read"
    /\ mu' = [mu EXCEPT !.readers = mu.readers - 1]
    /\ rpc' = "idle"
    /\ UNCHANGED <<extVars, cfgVars, rtVars, apiVars, wpc, wbucket, wtotal, wdone,
                   finalRead>>

DoWLock        == \E w \in Writers : WLock(w)
DoWPosition    == \E w \in Writers : WPosition(w)
DoWLoad        == \E w \in Writers : WLoad(w)
DoWStoreBucket == \E w \in Writers : WStoreBucket(w)
DoWStoreTotal  == \E w \in Writers : WStoreTotal(w)
DoWUnlock      == \E w \in Writers : WUnlock(w)

ConcNext ==
    \/ DoWLock \/ DoWPosition \/ DoWLoad \/ DoWStoreBucket \/ DoWStoreTotal
    \/ DoWUnlock \/ RLock \/ RRead \/ RUnlock

\* writers and a reader running against one tracker (TestConcurrency)
ConcSpec == Init /\ [][ConcNext]_vars

\* ------------------------------------ writers, a reader and a resetter
\* one of the goroutines calls Reset, the others call Record
Resetter == NWriters
Recorders == Writers \ {Resetter}

\* RecordN, the advance is not needed: the event goes to the current slot
WStay(w) ==
    /\ wpc[w] = "locked"
    /\ ~NeedAdvance(RT, Truncate(now, bucketSize))
    /\ wpc' = [wpc EXCEPT ![w] = "positioned"]
    /\ UNCHANGED <<extVars, cfgVars, rtVars, apiVars, mu, wbucket, wtotal,
                   wdone, rpc, finalRead>>

\* RecordN, rt.currentIndex = (rt.currentIndex + 1) % rt.windowSize
WAdvance(w) ==
    /\ wpc[w] = "locked"
    /\ NeedAdvance(RT, Truncate(now, bucketSize))
    /\ currentIndex' = (currentIndex + 1) % windowSize
    /\ wpc' = [wpc EXCEPT ![w] = "advanced"]
    /\ UNCHANGED <<extVars, cfgVars, buckets, timestamps, totalCount, apiVars,
                   mu, wbucket, wtotal, wdone, rpc, finalRead>>

\* RecordN, rt.totalCount -= rt.buckets[rt.currentIndex]
WEvict(w) ==
    /\ wpc[w] = "advanced"
    /\ totalCount' = totalCount - buckets[currentIndex]
    /\ wpc' = [wpc EXCEPT ![w] = "evicted"]
    /\ UNCHANGED <<extVars, cfgVars, buckets, timestamps, currentIndex,
                   apiVars, mu, wbucket, wtotal, wdone, rpc, finalRead>>

\* RecordN, rt.buckets[..] = 0 and rt.timestamps[..] = bucketTime
WClear(w) ==
    /\ wpc[w] = "evicted"
    /\ buckets' = [buckets EXCEPT ![currentIndex] = 0]
    /\ timestamps' = [timestamps EXCEPT
                        ![currentIndex] = Truncate(now, bucketSize)]
    /\ wpc' = [wpc EXCEPT ![w] = "positioned"]
    /\ UNCHANGED <<extVars, cfgVars, currentIndex, totalCount, apiVars, mu,
                   wbucket, wtotal, wdone, rpc, finalRead>>

\* the resetter goroutine calls rt.Reset(): rt.mu.Lock()
XLock ==
    /\ xpc = "call"
    /\ LockAvailable(mu)
    /\ mu' = [mu EXCEPT !.writer = Resetter]
    /\ xpc' = "locked"
    /\ UNCHANGED <<cfgVars, rtVars, apiVars, wpc, wbucket, wtotal, wdone, rpc,
                   finalRead, log, tailVars, uiVars, ctlVars, appVars>>

\* ... the loop that zeroes rt.buckets and rt.timestamps
XClearSlots ==
    /\ xpc = "locked"
    /\ buckets' = ResetResult(RT).buckets
    /\ timestamps' = ResetResult(RT).timestamps
    /\ xpc' = "cleared"
    /\ UNCHANGED <<cfgVars, currentIndex, totalCount, apiVars, concVars, log,
                   tailVars, uiVars, ctlVars, appVars>>

\* ... rt.currentIndex = 0 and rt.totalCount = 0
XClearTotals ==
    /\ xpc = "cleared"
    /\ currentIndex' = ResetResult(RT).currentIndex
    /\ totalCount' = ResetResult(RT).totalCount
    /\ xpc' = "stored"
    /\ UNCHANGED <<cfgVars, buckets, timestamps, apiVars, concVars, log,
                   tailVars, uiVars, ctlVars, appVars>>

\* ... the deferred rt.mu.Unlock()
XUnlock ==
    /\ xpc = "stored"
    /\ mu' = [mu EXCEPT !.writer = 0]
    /\ xpc' = "done"
    /\ UNCHANGED <<cfgVars, rtVars, apiVars, wpc, wbucket, wtotal, wdone, rpc,
                   finalRead, log, tailVars, uiVars, ctlVars, appVars>>

\* the clock moves on; a writer passes the time it read before its call, so
\* the clock is advanced between the writers' calls
LockTick ==
    /\ \A w \in Recorders : wpc[w] \in {"call", "done"}
    /\ Tick

\* a step of the goroutine w inside rt.Record(time.Now())
RecorderStep(w) ==
    \/ WLock(w) \/ WStay(w) \/ WAdvance(w) \/ WEvict(w) \/ WClear(w)
    \/ WLoad(w) \/ WStoreBucket(w) \/ WStoreTotal(w) \/ WUnlock(w)

DoRecorderStep == \E w \in Recorders : RecorderStep(w)

LockNext ==
    \/ DoRecorderStep
    \/ RLock \/ RRead \/ RUnlock
    \/ XLock \/ XClearSlots \/ XClearTotals \/ XUnlock
    \/ LockTick

\* writers, a reader and a resetter on one tracker while the clock runs
LockSpec == Init /\ [][LockNext]_vars

\* --------------------------------------------- the calls made, remembered
\* rt.RecordN(t, n) on a tracker with at least one slot; the call is logged
LoggedRecordN(t, n) ==
    /\ ~panicked
    /\ calls < MaxRecords
    /\ SetTracker(RecordNResult(RT, t, n))
    /\ log' = Append(log, <<t, n>>)
    /\ calls' = calls + 1
    /\ lastOp' = "RecordN"
    /\ stats' = ZeroStats
    /\ sumN' = sumN + n
    /\ minT' = IF minT = -1 THEN t ELSE Min(minT, t)
    /\ maxT' = IF maxT = -1 THEN t ELSE Max(maxT, t)
    /\ UNCHANGED <<cfgVars, now, panicked, concVars, xpc, tailVars, uiVars, ctlVars, appVars>>

DoLoggedRecordN ==
    \E t \in EventTimes, n \in 1..MaxCount : LoggedRecordN(t, n)

OrderNext == DoLoggedRecordN \/ GetStats \/ Tick

\* RecordN calls with positive counts, queries and the clock
OrderSpec == Init /\ [][OrderNext]_vars

\* a caller that feeds the tracker in timestamp order: no call carries a
\* timestamp earlier than one recorded before
DoInOrderRecordN ==
    \E t \in EventTimes, n \in 1..MaxCount :
        /\ t >= maxT
        /\ LoggedRecordN(t, n)

InOrderNext == DoInOrderRecordN \/ Tick

InOrderSpec == Init /\ [][InOrderNext]_vars

\* the tracker after the RecordN calls of cs, made in that order on rt
RECURSIVE Replay(_, _)
Replay(rt, cs) ==
    IF cs = <<>> THEN rt
    ELSE Replay(RecordNResult(rt, Head(cs)[1], Head(cs)[2]), Tail(cs))

\* ------------------------------------------------------ tailer.TailLines
\* A line of the file is its number, counted from 1; 0 is the text of a
\* line cut in two by readLastNLines' seek.
nonTailVars == <<cfgVars, rtVars, apiVars, concVars, log, xpc, uiVars,
                 ctlVars, appVars>>

\* the slice s[from:], from counted from 0
SliceFrom(s, from) == SubSeq(s, from + 1, Len(s))

\* out, done := TailLines(path, fromEnd, done) on a file of any length
TailInit ==
    /\ Construct(BucketSizes, {MaxWindow}) /\ ApiStart /\ now = Epoch
    /\ ConcIdle /\ HistIdle /\ NewTviewApp
    /\ NewControls(ClampRefresh(DefaultRefreshMs))
    /\ fromEnd \in BOOLEAN
    /\ fileOld \in 0..MaxFile
    /\ fileLen = fileOld
    /\ tpc = "start"
    /\ tailPos = 0
    /\ tline = 0
    /\ out = <<>>
    /\ outClosed = FALSE
    /\ doneClosed = FALSE
    /\ linesClosed = FALSE
    /\ hist = <<>>
    /\ delivered = <<>>

\* the goroutine starts: if !fromEnd { readLastNLines } then startTailing
TStart ==
    /\ tpc = "start"
    /\ tpc' = IF fromEnd THEN "open" ELSE "scan"
    /\ UNCHANGED <<nonTailVars, fromEnd, fileOld, fileLen, tailPos, tline, out,
                   outClosed, doneClosed, linesClosed, hist, delivered>>

\* what the scanner returns after the seek to fileSize - n*150 bytes: the
\* last m whole lines of the file, preceded by the rest of the line the
\* offset fell into unless the offset is 0 or a line start
ScannedLines(m, cut) ==
    (IF cut THEN <<0>> ELSE <<>>) \o [i \in 1..m |-> fileLen - m + i]

\* readLastNLines up to the choice of the lines to send
TReadLastNLines ==
    /\ tpc = "scan"
    /\ \E m \in 0..fileLen, cut \in BOOLEAN :
          /\ (m = fileLen => ~cut)
          /\ LET lines == ScannedLines(m, cut)
                 start == IF Len(lines) > LastLines
                          THEN Len(lines) - LastLines ELSE 0
             IN  hist' = SliceFrom(lines, start)
    /\ tpc' = "history"
    /\ UNCHANGED <<nonTailVars, fromEnd, fileOld, fileLen, tailPos, tline, out,
                   outClosed, doneClosed, linesClosed, delivered>>

\* readLastNLines, one round of the sending loop: select with default
THistorySend ==
    /\ tpc = "history"
    /\ hist # <<>>
    /\ IF Len(out) < OutCap
       THEN /\ out' = Append(out, Head(hist))
            /\ hist' = Tail(hist)
       ELSE /\ hist' = <<>>
            /\ UNCHANGED out
    /\ UNCHANGED <<nonTailVars, fromEnd, fileOld, fileLen, tpc, tailPos, tline,
                   outClosed, doneClosed, linesClosed, delivered>>

\* readLastNLines returns
THistoryDone ==
    /\ tpc = "history"
    /\ hist = <<>>
    /\ tpc' = "open"
    /\ UNCHANGED <<nonTailVars, fromEnd, fileOld, fileLen, tailPos, tline, out,
                   outClosed, doneClosed, linesClosed, hist, delivered>>

\* startTailing: tail.TailFile at SeekEnd or at SeekStart, or its error
TOpen ==
    /\ tpc = "open"
    /\ \E ok \in BOOLEAN :
          IF ok
          THEN /\ tailPos' = IF fromEnd THEN fileLen + 1 ELSE 1
               /\ tpc' = "select"
               /\ UNCHANGED outClosed
          ELSE /\ outClosed' = TRUE
               /\ tpc' = "returned"
               /\ UNCHANGED tailPos
    /\ UNCHANGED <<nonTailVars, fromEnd, fileOld, fileLen, tline, out,
                   doneClosed, linesClosed, hist, delivered>>

\* case <-done: t.Cleanup(); close(out); return
TSelectDone ==
    /\ tpc = "select"
    /\ doneClosed
    /\ outClosed' = TRUE
    /\ tpc' = "returned"
    /\ UNCHANGED <<nonTailVars, fromEnd, fileOld, fileLen, tailPos, tline, out,
                   doneClosed, linesClosed, hist, delivered>>

\* case line, ok := <-t.Lines with ok true
TSelectLine ==
    /\ tpc = "select"
    /\ ~linesClosed
    /\ tailPos <= fileLen
    /\ tline' = tailPos
    /\ tailPos' = tailPos + 1
    /\ tpc' = "send"
    /\ UNCHANGED <<nonTailVars, fromEnd, fileOld, fileLen, out, outClosed,
                   doneClosed, linesClosed, hist, delivered>>

\* a loop that closes out when t.Lines is closed but does not return
TSelectClosedNoReturn ==
    /\ tpc = "select"
    /\ linesClosed
    /\ outClosed' = TRUE
    /\ UNCHANGED <<nonTailVars, fromEnd, fileOld, fileLen, tpc, tailPos, tline,
                   out, doneClosed, linesClosed, hist, delivered>>

\* case line, ok := <-t.Lines with ok false: close(out); return
TSelectClosed ==
    /\ tpc = "select"
    /\ linesClosed
    /\ outClosed' = TRUE
    /\ tpc' = "returned"
    /\ UNCHANGED <<nonTailVars, fromEnd, fileOld, fileLen, tailPos, tline, out,
                   doneClosed, linesClosed, hist, delivered>>

\* out <- line.Text, which waits for room in the channel
TSend ==
    /\ tpc = "send"
    /\ Len(out) < OutCap
    /\ out' = Append(out, tline)
    /\ tpc' = "select"
    /\ UNCHANGED <<nonTailVars, fromEnd, fileOld, fileLen, tailPos, tline,
                   outClosed, doneClosed, linesClosed, hist, delivered>>

\* nginx appends a line to the log file
AppendLine ==
    /\ tpc # "idle"
    /\ fileLen < MaxFile
    /\ fileLen' = fileLen + 1
    /\ UNCHANGED <<nonTailVars, fromEnd, fileOld, tpc, tailPos, tline, out,
                   outClosed, doneClosed, linesClosed, hist, delivered>>

\* the caller closes done
CloseDone ==
    /\ tpc # "idle"
    /\ ~doneClosed
    /\ doneClosed' = TRUE
    /\ UNCHANGED <<nonTailVars, fromEnd, fileOld, fileLen, tpc, tailPos, tline,
                   out, outClosed, linesClosed, hist, delivered>>

\* the tail library gives up on the file and closes t.Lines
TailStops ==
    /\ tpc \in {"select", "send"}
    /\ ~linesClosed
    /\ linesClosed' = TRUE
    /\ UNCHANGED <<nonTailVars, fromEnd, fileOld, fileLen, tpc, tailPos, tline,
                   out, outClosed, doneClosed, hist, delivered>>

\* the consumer receives a line from out
Receive ==
    /\ out # <<>>
    /\ delivered' = Append(delivered, Head(out))
    /\ out' = Tail(out)
    /\ UNCHANGED <<nonTailVars, fromEnd, fileOld, fileLen, tpc, tailPos, tline,
                   outClosed, doneClosed, linesClosed, hist>>

\* the steps of the goroutine TailLines starts
TailerStep ==
    \/ TStart \/ TReadLastNLines \/ THistorySend \/ THistoryDone \/ TOpen
    \/ TSelectDone \/ TSelectLine \/ TSelectClosed \/ TSend

TailNext == TailerStep \/ AppendLine \/ CloseDone \/ TailStops \/ Receive

\* The goroutine is scheduled whenever it can take a step; nothing obliges
\* the consumer, the caller or nginx to act.
TailSpec == TailInit /\ [][TailNext]_vars /\ WF_vars(TailerStep)

\* ----------------------------------------------------- ui: the dashboard
\* In the dashboard's specification a tick is one minute, so a preset of
\* timeWindowPresets is a number of ticks.

\* a slip: an entry exactly as old as the window is dropped too
TooOldOrEqual(v, nowv, tw) ==
    IF IsZero(v.Time) THEN TRUE ELSE nowv - v.Time >= tw

\* age := now.Sub(v.Time); age > ta.timeWindow.  Sub saturates at the largest
\* Duration (about 292 years), and the zero time lies farther back than
\* that, so the age of a zero time exceeds every window.
TooOld(v, nowv, tw) ==
    IF IsZero(v.Time) THEN TRUE ELSE nowv - v.Time > tw

\* applyFilters, the loop over ta.allVisitors from entry i on
RECURSIVE FilterLoop(_, _, _, _, _, _)
FilterLoop(all, i, sf, tw, nowv, acc) ==
    IF i > Len(all) THEN acc
    ELSE IF sf > 0 /\ (all[i].Status \div 100) # sf
         THEN FilterLoop(all, i + 1, sf, tw, nowv, acc)
    ELSE IF tw > 0 /\ TooOld(all[i], nowv, tw)
         THEN FilterLoop(all, i + 1, sf, tw, nowv, acc)
    ELSE FilterLoop(all, i + 1, sf, tw, nowv, Append(acc, all[i]))

\* the value applyFilters leaves in ta.visitors
ApplyFilters(all, sf, tw, nowv) == FilterLoop(all, 1, sf, tw, nowv, <<>>)

\* for _, v := range batch { ta.rateTracker.Record(v.Time) }
RECURSIVE RecordAll(_, _)
RecordAll(rt, b) ==
    IF b = <<>> THEN rt
    ELSE RecordAll(RecordNResult(rt, Head(b).Time, 1), Tail(b))

\* if len(ta.allVisitors) > 10000 { keep the last 10000 }
KeepNewest(all) ==
    IF Len(all) > VisitorCap
    THEN SubSeq(all, Len(all) - VisitorCap + 1, Len(all))
    ELSE all

RECURSIVE MinTime(_, _)
MinTime(m, b) ==
    IF b = <<>> THEN m
    ELSE MinTime(IF m = -1 THEN Head(b).Time ELSE Min(m, Head(b).Time),
                 Tail(b))

RECURSIVE MaxTimeOf(_, _)
MaxTimeOf(m, b) ==
    IF b = <<>> THEN m
    ELSE MaxTimeOf(IF m = -1 THEN Head(b).Time ELSE Max(m, Head(b).Time),
                   Tail(b))

uiFrame == <<cfgVars, panicked, concVars, log, xpc, tailVars, ctlVars,
            appVars>>

\* ta.processBatch(b)
ProcessBatch(b) ==
    /\ ~panicked
    /\ calls + Len(b) <= MaxRecords
    /\ SetTracker(RecordAll(RT, b))
    /\ calls' = calls + Len(b)
    /\ sumN' = sumN + Len(b)
    /\ minT' = MinTime(minT, b)
    /\ maxT' = MaxTimeOf(maxT, b)
    /\ allVisitors' = KeepNewest(allVisitors \o b)
    /\ visitors' = ApplyFilters(KeepNewest(allVisitors \o b), statusFilter,
                                timeWindow, now)
    /\ dataChanged' = TRUE
    /\ batch' = b
    /\ lastOp' = "processBatch"
    /\ stats' = ZeroStats
    /\ UNCHANGED <<uiFrame, now, statusFilter, timeWindow, timeWindowIndex>>

\* the keys '2', '3', '4', '5': filter by status class
KeyStatus(k) ==
    /\ ~panicked
    /\ statusFilter' = k
    /\ visitors' = ApplyFilters(allVisitors, k, timeWindow, now)
    /\ dataChanged' = TRUE
    /\ batch' = <<>>
    /\ lastOp' = "key"
    /\ stats' = ZeroStats
    /\ UNCHANGED <<uiFrame, rtVars, now, calls, sumN, minT, maxT, allVisitors,
                   timeWindow, timeWindowIndex>>

\* the key Esc: clear the status filter
KeyEscape ==
    /\ ~panicked
    /\ statusFilter' = 0
    /\ visitors' = ApplyFilters(allVisitors, 0, timeWindow, now)
    /\ dataChanged' = TRUE
    /\ batch' = <<>>
    /\ lastOp' = "key"
    /\ stats' = ZeroStats
    /\ UNCHANGED <<uiFrame, rtVars, now, calls, sumN, minT, maxT, allVisitors,
                   timeWindow, timeWindowIndex>>

\* a slip: the index stops at the last preset instead of wrapping
NextPresetIndexNoWrap(i) ==
    IF i + 1 < Len(timeWindowPresets) THEN i + 1 ELSE i

\* (ta.timeWindowIndex + 1) % len(timeWindowPresets)
NextPresetIndex(i) == (i + 1) % Len(timeWindowPresets)

\* the key 't': next time-window preset
KeyTimeWindow ==
    /\ ~panicked
    /\ LET idx    == NextPresetIndex(timeWindowIndex)
           preset == timeWindowPresets[idx + 1]
       IN  /\ timeWindowIndex' = idx
           /\ timeWindow' = preset
           /\ visitors' = ApplyFilters(allVisitors, statusFilter, preset, now)
    /\ dataChanged' = TRUE
    /\ batch' = <<>>
    /\ lastOp' = "keyT"
    /\ stats' = ZeroStats
    /\ UNCHANGED <<uiFrame, rtVars, now, calls, sumN, minT, maxT, allVisitors,
                   statusFilter>>

\* updateLoop, one tick: changed := ta.dataChanged; ta.dataChanged = false
UpdateLoopTick ==
    /\ ~panicked
    /\ dataChanged
    /\ dataChanged' = FALSE
    /\ batch' = <<>>
    /\ lastOp' = "updateLoop"
    /\ stats' = ZeroStats
    /\ UNCHANGED <<uiFrame, rtVars, now, calls, sumN, minT, maxT, allVisitors,
                   visitors, statusFilter, timeWindow, timeWindowIndex>>

\* the values the filter keys can give ta.statusFilter
StatusFilters == {0, 2, 3, 4, 5}

Batches == UNION {[1..k -> Visitors] : k \in 1..MaxBatch}

DoProcessBatch == \E b \in Batches : ProcessBatch(b)
DoKeyStatus    == \E k \in StatusFilters \ {0} : KeyStatus(k)

UINext ==
    \/ DoProcessBatch \/ DoKeyStatus \/ KeyEscape \/ KeyTimeWindow
    \/ UpdateLoopTick \/ Tick

\* the dashboard late in the modelled time span, fed with batches and keys
UIInit == Init /\ now >= MaxTime - 1

UISpec == UIInit /\ [][UINext]_vars

\* ta.applyFilters() called in a state the dashboard can be in
ApplyFiltersCall ==
    /\ visitors' = ApplyFilters(allVisitors, statusFilter, timeWindow, now)
    /\ lastOp' = "applyFilters"
    /\ UNCHANGED <<cfgVars, rtVars, now, stats, panicked, calls, sumN, minT,
                   maxT, concVars, log, xpc, tailVars, allVisitors,
                   dataChanged, statusFilter, timeWindow, timeWindowIndex,
                   batch, ctlVars, appVars>>

\* any retained visitors, any status filter, any time-window preset
FilterInit ==
    /\ Construct(BucketSizes, {MaxWindow}) /\ ApiStart
    /\ ConcIdle /\ HistIdle /\ TailIdle
    /\ allVisitors \in UNION {[1..k -> Visitors] : k \in 0..VisitorCap}
    /\ visitors = <<>>
    /\ dataChanged = FALSE
    /\ statusFilter \in StatusFilters
    /\ timeWindowIndex \in 0..(Len(timeWindowPresets) - 1)
    /\ timeWindow = timeWindowPresets[timeWindowIndex + 1]
    /\ batch = <<>>
    /\ NewControls(ClampRefresh(DefaultRefreshMs))

FilterNext == ApplyFiltersCall \/ Tick

FilterSpec == FilterInit /\ [][FilterNext]_vars

\* the dashboard as NewTviewApp leaves the filters, holding the visitors
\* that processBatch has retained so far
WindowInit ==
    /\ Construct(BucketSizes, {MaxWindow}) /\ ApiStart
    /\ ConcIdle /\ HistIdle /\ TailIdle
    /\ allVisitors \in UNION {[1..k -> Visitors] : k \in 0..VisitorCap}
    /\ visitors = allVisitors
    /\ dataChanged = FALSE
    /\ statusFilter = 0
    /\ timeWindow = 0
    /\ timeWindowIndex = Len(timeWindowPresets) - 1
    /\ batch = <<>>
    /\ NewControls(ClampRefresh(DefaultRefreshMs))

WindowNext == KeyTimeWindow \/ DoKeyStatus \/ KeyEscape \/ Tick

WindowSpec == WindowInit /\ [][WindowNext]_vars

\* ------------------------------------------- ui: refresh rate and pause
\* the literals of the '+' and '-' handlers, in milliseconds
PlusFloor  == 100
MinusLimit == 5000
RateStep   == 100

\* values of the -refresh flag: below, at and above both clamps, on and off
\* the 100 ms grid
RefreshFlags == {-1, 0, 50, 100, 150, 1000, 4950, 5000, 10000, 20000}

ctlFrame == <<cfgVars, rtVars, now, stats, panicked, calls, sumN, minT, maxT,
              concVars, log, xpc, tailVars, uiVars, appVars>>

\* the key '+': if ta.refreshRate > 100ms { ta.refreshRate -= 100ms }
KeyPlus ==
    /\ refreshRate' = IF refreshRate > PlusFloor
                      THEN refreshRate - RateStep ELSE refreshRate
    /\ lastOp' = "key+"
    /\ UNCHANGED <<ctlFrame, paused, tickerInterval>>

\* the key '-': if ta.refreshRate < 5s { ta.refreshRate += 100ms }
KeyMinus ==
    /\ refreshRate' = IF refreshRate < MinusLimit
                      THEN refreshRate + RateStep ELSE refreshRate
    /\ lastOp' = "key-"
    /\ UNCHANGED <<ctlFrame, paused, tickerInterval>>

\* the key ' ': ta.paused = !ta.paused
KeySpace ==
    /\ paused' = ~paused
    /\ lastOp' = "keySpace"
    /\ UNCHANGED <<ctlFrame, refreshRate, tickerInterval>>

\* updateLoop begins: ticker := time.NewTicker(ta.refreshRate)
UpdateLoopStart ==
    /\ tickerInterval = 0
    /\ tickerInterval' = refreshRate
    /\ lastOp' = "updateLoopStart"
    /\ UNCHANGED <<ctlFrame, refreshRate, paused>>

\* updateLoop, the body run for one value of ticker.C: the flag is read and
\* cleared; the dashboard is redrawn if it was set and the app not paused
UpdateLoopBody ==
    /\ tickerInterval > 0
    /\ dataChanged' = FALSE
    /\ lastOp' = IF ~paused /\ dataChanged THEN "updateLoop" ELSE "tick"
    /\ UNCHANGED <<cfgVars, rtVars, now, stats, panicked, calls, sumN, minT,
                   maxT, concVars, log, xpc, tailVars, allVisitors, visitors,
                   statusFilter, timeWindow, timeWindowIndex, batch, ctlVars,
                   appVars>>

\* main with -refresh = f, up to app.Run()
RefreshInit ==
    /\ Construct(BucketSizes, {MaxWindow}) /\ ApiStart
    /\ now = Epoch
    /\ ConcIdle /\ HistIdle /\ TailIdle /\ NewTviewApp
    /\ \E f \in RefreshFlags : NewControls(ClampRefresh(f))

RefreshNext ==
    \/ KeyPlus \/ KeyMinus \/ KeySpace \/ KeyEscape
    \/ UpdateLoopStart \/ UpdateLoopBody

RefreshSpec == RefreshInit /\ [][RefreshNext]_vars

\* ------------------------------------------------- ui: readLines batching
\* A line is a number: 0 does not match the log format, 1 matches with a
\* time field that time.Parse rejects, any other matches.
IngestLines == {0, 1, 2}

\* parser.Parse(line): no visitor for a line that does not match, else the
\* visitor, whose Time stays the zero time when the time field is malformed
Parse(line) ==
    IF line = 0 THEN <<>>
    ELSE <<[Time   |-> IF line = 1 THEN 0 ELSE Epoch + line,
            Status |-> 200]>>

\* a slip: the batch is handed on only when it has grown past the limit
FullBatchLate(b) == Len(b) > MaxBatch

\* len(batch) >= 100
FullBatch(b) == Len(b) >= MaxBatch

\* the Record calls of processBatch(b), as entries of the call log
RECURSIVE RecordCalls(_)
RecordCalls(b) ==
    IF b = <<>> THEN <<>>
    ELSE <<<<Head(b).Time, 1>>>> \o RecordCalls(Tail(b))

\* ta.processBatch(b) called from readLines
FlushBatch(b) ==
    /\ SetTracker(RecordAll(RT, b))
    /\ log' = log \o RecordCalls(b)
    /\ calls' = calls + Len(b)
    /\ sumN' = sumN + Len(b)
    /\ minT' = MinTime(minT, b)
    /\ maxT' = MaxTimeOf(maxT, b)
    /\ allVisitors' = KeepNewest(allVisitors \o b)
    /\ visitors' = ApplyFilters(KeepNewest(allVisitors \o b), statusFilter,
                                timeWindow, now)
    /\ dataChanged' = TRUE
    /\ batch' = b

\* readLines goes round its loop without calling processBatch
KeepBatch ==
    UNCHANGED <<rtVars, log, calls, sumN, minT, maxT, allVisitors, visitors,
                dataChanged, batch>>

ingFrame == <<cfgVars, now, panicked, concVars, xpc, statusFilter, timeWindow,
              timeWindowIndex, ctlVars, fromEnd, fileOld, fileLen, tpc,
              tailPos, tline, doneClosed, linesClosed, hist>>

\* Run: go ta.readLines(); the batch and its ticker are created
RLStart ==
    /\ rlpc = "idle"
    /\ rlpc' = "run"
    /\ rbatch' = <<>>
    /\ lastOp' = "readLines"
    /\ stats' = ZeroStats
    /\ KeepBatch
    /\ UNCHANGED <<ingFrame, out, outClosed, delivered, tickReady, ulpc, drawn,
                   rateText, lockVars>>

\* case line, ok := <-ta.lines with ok true
RLReceive ==
    /\ rlpc = "run"
    /\ out # <<>>
    /\ out' = Tail(out)
    /\ delivered' = Append(delivered, Head(out))
    /\ LET nb == rbatch \o Parse(Head(out))
       IN  IF Parse(Head(out)) # <<>> /\ FullBatch(nb)
           THEN FlushBatch(nb) /\ rbatch' = <<>>
           ELSE KeepBatch /\ rbatch' = nb
    /\ lastOp' = "readLine"
    /\ stats' = ZeroStats
    /\ UNCHANGED <<ingFrame, outClosed, rlpc, tickReady, ulpc, drawn,
                   rateText, lockVars>>

\* case line, ok := <-ta.lines with ok false: flush and return
RLClosed ==
    /\ rlpc = "run"
    /\ out = <<>>
    /\ outClosed
    /\ IF Len(rbatch) > 0 THEN FlushBatch(rbatch) ELSE KeepBatch
    /\ rbatch' = <<>>
    /\ rlpc' = "done"
    /\ lastOp' = "linesClosed"
    /\ stats' = ZeroStats
    /\ UNCHANGED <<ingFrame, out, outClosed, delivered, tickReady, ulpc, drawn,
                   rateText, lockVars>>

\* case <-batchTicker.C
RLTick ==
    /\ rlpc = "run"
    /\ tickReady
    /\ tickReady' = FALSE
    /\ IF Len(rbatch) > 0
       THEN FlushBatch(rbatch) /\ rbatch' = <<>>
       ELSE KeepBatch /\ rbatch' = rbatch
    /\ lastOp' = "batchTick"
    /\ stats' = ZeroStats
    /\ UNCHANGED <<ingFrame, out, outClosed, delivered, rlpc, ulpc, drawn,
                   rateText, lockVars>>

\* 100 ms have passed: the ticker puts a tick into its channel of capacity
\* one, or drops it when the last one was not taken
BatchTickerFires ==
    /\ rlpc = "run"
    /\ ~tickReady
    /\ tickReady' = TRUE
    /\ lastOp' = "tickerFires"
    /\ stats' = ZeroStats
    /\ KeepBatch
    /\ UNCHANGED <<ingFrame, out, outClosed, delivered, rbatch, rlpc, ulpc,
                   drawn, rateText, lockVars>>

\* the tailer sends a line on the channel readLines reads
LineArrives ==
    /\ ~outClosed
    /\ Len(out) < OutCap
    /\ Len(delivered) + Len(out) < MaxFile
    /\ \E l \in IngestLines : out' = Append(out, l)
    /\ lastOp' = "lineArrives"
    /\ stats' = ZeroStats
    /\ KeepBatch
    /\ UNCHANGED <<ingFrame, outClosed, delivered, appVars>>

\* the tailer closes the channel
LinesClose ==
    /\ ~outClosed
    /\ outClosed' = TRUE
    /\ lastOp' = "linesClose"
    /\ stats' = ZeroStats
    /\ KeepBatch
    /\ UNCHANGED <<ingFrame, out, delivered, appVars>>

IngestInit ==
    /\ Construct(BucketSizes, {MaxWindow}) /\ ApiStart /\ now = MaxTime
    /\ ConcIdle /\ HistIdle /\ TailIdle /\ NewTviewApp
    /\ NewControls(ClampRefresh(DefaultRefreshMs))

\* the steps of the goroutine readLines
ReadLinesStep == RLStart \/ RLReceive \/ RLClosed \/ RLTick

IngestNext == ReadLinesStep \/ BatchTickerFires \/ LineArrives \/ LinesClose

\* readLines can take a step: ENABLED <<ReadLinesStep>>_vars, written out
ReadLinesReady ==
    \/ rlpc = "idle"
    \/ rlpc = "run" /\ (out # <<>> \/ outClosed \/ tickReady)

\* The goroutine runs when it can and the ticker fires as time passes.
\* Nothing obliges the tailer to send or to close.  The second conjunct is
\* WF_vars(ReadLinesStep) with its ENABLED written as a state predicate.
IngestSpec ==
    /\ IngestInit /\ [][IngestNext]_vars
    /\ ([]<>(~ReadLinesReady) \/ []<><<ReadLinesStep>>_vars)
    /\ WF_vars(BatchTickerFires)

\* ------------------------------------------------ ui: trend indicator
\* counts per RecordN call that put TrendChange below, on and above the
\* two thresholds
TrendCounts == {-1, 0, 19, 20, 21, 22}

\* the thresholds of renderOverview
TrendUp == 5

TrendDown == -5

\* a glyph that counts the threshold itself as increasing or decreasing
RateTextInclusive(st) ==
    IF st.Total > 0
    THEN IF ~FLt(st.TrendChange, TrendUp) THEN "increasing"
         ELSE IF ~FGt(st.TrendChange, TrendDown) THEN "decreasing"
         ELSE "stable"
    ELSE ""

\* renderOverview, lines 953-968: rateText is empty unless stats.Total > 0;
\* "increasing" stands for the up arrow, "decreasing" for the down arrow
\* and "stable" for the right arrow that follow the rate
RateText(st) ==
    IF st.Total > 0
    THEN IF FGt(st.TrendChange, TrendUp) THEN "increasing"
         ELSE IF FLt(st.TrendChange, TrendDown) THEN "decreasing"
         ELSE "stable"
    ELSE ""

\* renderOverview, line 952 on: GetStats and the rate text made from it
RenderOverview ==
    /\ ~panicked
    /\ stats' = GetStatsResult(RT, now)
    /\ SetTracker(GetStatsFrame(RT, now))
    /\ rateText' = RateText(stats')
    /\ lastOp' = "renderOverview"
    /\ UNCHANGED <<cfgVars, now, panicked, calls, sumN, minT, maxT, concVars,
                   log, xpc, tailVars, uiVars, ctlVars, rbatch, rlpc,
                   tickReady, ulpc, drawn, lockVars>>

\* RecordN at the current time with a count of TrendCounts (a batch of
\* that many lines of one second, recorded one by one, gives the same)
TrendRecordN == \E n \in TrendCounts : RecordN(now, n)

TrendInit ==
    /\ Construct(BucketSizes, {MaxWindow}) /\ ApiStart /\ ConcIdle
    /\ HistIdle /\ TailIdle /\ NewTviewApp
    /\ NewControls(ClampRefresh(DefaultRefreshMs))

TrendNext == TrendRecordN \/ Tick \/ RenderOverview

TrendSpec == TrendInit /\ [][TrendNext]_vars

\* ------------------------------------------------ ui: pause and redraw
\* a tick that redraws whenever the data changed, paused or not
ULTickUnguarded ==
    /\ tickerInterval > 0
    /\ ulpc = "wait"
    /\ dataChanged' = FALSE
    /\ ulpc' = IF dataChanged THEN "redraw" ELSE "wait"
    /\ lastOp' = "tick"
    /\ UNCHANGED <<cfgVars, rtVars, now, stats, panicked, calls, sumN, minT,
                   maxT, concVars, log, xpc, tailVars, allVisitors, visitors,
                   statusFilter, timeWindow, timeWindowIndex, batch, ctlVars,
                   rbatch, rlpc, tickReady, drawn,
                   rateText, lockVars>>

\* updateLoop, lines 837-841 of one tick: under the lock the two flags are
\* read and dataChanged is cleared; the redraw is decided
ULTick ==
    /\ tickerInterval > 0
    /\ ulpc = "wait"
    /\ dataChanged' = FALSE
    /\ ulpc' = IF ~paused /\ dataChanged THEN "redraw" ELSE "wait"
    /\ lastOp' = "tick"
    /\ UNCHANGED <<cfgVars, rtVars, now, stats, panicked, calls, sumN, minT,
                   maxT, concVars, log, xpc, tailVars, allVisitors, visitors,
                   statusFilter, timeWindow, timeWindowIndex, batch, ctlVars,
                   rbatch, rlpc, tickReady, drawn,
                   rateText, lockVars>>

\* updateLoop, lines 844-853: updateData, then the queued renderAll draws
\* the filters and visitors it finds
ULRedraw ==
    /\ ulpc = "redraw"
    /\ ulpc' = "wait"
    /\ drawn' = <<statusFilter, timeWindow, visitors>>
    /\ rateText' = RateText(GetStatsResult(RT, now))
    /\ lastOp' = "updateLoop"
    /\ UNCHANGED <<cfgVars, rtVars, now, stats, panicked, calls, sumN, minT,
                   maxT, concVars, log, xpc, tailVars, uiVars, ctlVars,
                   rbatch, rlpc, tickReady, lockVars>>

\* the steps of the goroutine updateLoop
UpdateLoopStep == UpdateLoopStart \/ ULTick \/ ULRedraw

\* the dashboard as Run() finds it
PauseInit ==
    /\ Construct(BucketSizes, {MaxWindow}) /\ ApiStart /\ now = MaxTime
    /\ ConcIdle /\ HistIdle /\ TailIdle /\ NewTviewApp
    /\ NewControls(ClampRefresh(DefaultRefreshMs))

PauseNext == KeySpace \/ DoKeyStatus \/ KeyEscape \/ UpdateLoopStep

\* The ticker fires as long as the program runs and the goroutine is
\* scheduled; nothing obliges the user to press a key.
PauseSpec == PauseInit /\ [][PauseNext]_vars /\ WF_vars(UpdateLoopStep)

\* ------------------------------------------------ ui: the two locks
\* the buffer of the queue behind QueueUpdateDraw
QueueCap == 2

\* m.Lock() by g, in two steps as sync.RWMutex takes it: g announces
\* itself once no other writer has, which holds back new readers, and has
\* the lock once the readers inside have left
MuLock(m, g, at, next) ==
    /\ lpc[g] = at
    /\ IF m.wm = g
       THEN /\ m.r = {}
            /\ m' = [m EXCEPT !.held = TRUE]
            /\ lpc' = [lpc EXCEPT ![g] = next]
       ELSE /\ m.wm = ""
            /\ m' = [m EXCEPT !.wm = g]
            /\ UNCHANGED lpc

\* m.Unlock(): the readers that waited for the writer are let in
MuUnlock(m, g, at, next) ==
    /\ lpc[g] = at
    /\ m' = [wm |-> "", held |-> FALSE, r |-> m.rw, rw |-> {}]
    /\ lpc' = [lpc EXCEPT ![g] = next]

\* m.MuRLock() by g: g counts itself in, waits while a writer has announced
\* itself, and goes on once it is among the readers
MuRLock(m, g, at, next) ==
    /\ lpc[g] = at
    /\ IF g \in m.r
       THEN /\ lpc' = [lpc EXCEPT ![g] = next]
            /\ UNCHANGED m
       ELSE /\ g \notin m.rw
            /\ m' = IF m.wm = "" THEN [m EXCEPT !.r = @ \cup {g}]
                    ELSE [m EXCEPT !.rw = @ \cup {g}]
            /\ UNCHANGED lpc

\* m.MuRUnlock()
MuRUnlock(m, g, at, next) ==
    /\ lpc[g] = at
    /\ m' = [m EXCEPT !.r = @ \ {g}]
    /\ lpc' = [lpc EXCEPT ![g] = next]

lockFrame == <<cfgVars, rtVars, apiVars, concVars, log, xpc, tailVars,
               uiVars, ctlVars, rbatch, rlpc, tickReady, ulpc, drawn,
               rateText>>

\* readLines hands a batch of one or more visitors to processBatch
PBCall ==
    /\ lpc["ingest"] = "idle"
    /\ lpc' = [lpc EXCEPT !["ingest"] = "pbLock"]
    /\ \E k \in 1..MaxBatch : pbLeft' = k
    /\ UNCHANGED <<lockFrame, tamu, rtmu, updates>>

\* processBatch, line 791
PBLock ==
    /\ MuLock(tamu, "ingest", "pbLock", "pbLoop")
    /\ UNCHANGED <<lockFrame, rtmu, pbLeft, updates>>

\* processBatch, line 796 with RecordN, line 40, for the next visitor
RecordLock ==
    /\ pbLeft > 0
    /\ MuLock(rtmu, "ingest", "pbLoop", "record")
    /\ UNCHANGED <<lockFrame, tamu, pbLeft, updates>>

\* RecordN, lines 41-64: the body and the deferred Unlock
RecordUnlock ==
    /\ MuUnlock(rtmu, "ingest", "record", "pbLoop")
    /\ pbLeft' = pbLeft - 1
    /\ UNCHANGED <<lockFrame, tamu, updates>>

\* processBatch, lines 799-806 once every visitor is recorded: the rest of
\* the body and the deferred Unlock of line 792
PBUnlock ==
    /\ pbLeft = 0
    /\ MuUnlock(tamu, "ingest", "pbLoop", "idle")
    /\ UNCHANGED <<lockFrame, rtmu, pbLeft, updates>>

\* updateLoop, line 836: a tick arrives
LTick ==
    /\ lpc["update"] = "idle"
    /\ lpc' = [lpc EXCEPT !["update"] = "flagsLock"]
    /\ UNCHANGED <<lockFrame, tamu, rtmu, pbLeft, updates>>

\* updateLoop, line 837
LFlagsLock ==
    /\ MuLock(tamu, "update", "flagsLock", "flags")
    /\ UNCHANGED <<lockFrame, rtmu, pbLeft, updates>>

\* updateLoop, lines 838-844: the flags are read, the lock released, and
\* the loop either goes on to update or waits for the next tick
LFlagsUnlock ==
    /\ \E next \in {"dataLock", "idle"} :
           MuUnlock(tamu, "update", "flags", next)
    /\ UNCHANGED <<lockFrame, rtmu, pbLeft, updates>>

\* updateLoop, line 845
LDataLock ==
    /\ MuLock(tamu, "update", "dataLock", "data")
    /\ UNCHANGED <<lockFrame, rtmu, pbLeft, updates>>

\* an update loop that keeps ta.mu while it queues the redraw
LDataKeepLock ==
    /\ lpc["update"] = "data"
    /\ lpc' = [lpc EXCEPT !["update"] = "queue"]
    /\ UNCHANGED <<lockFrame, tamu, rtmu, pbLeft, updates>>

\* updateLoop, lines 846-847: updateData and Unlock
LDataUnlock ==
    /\ MuUnlock(tamu, "update", "data", "queue")
    /\ UNCHANGED <<lockFrame, rtmu, pbLeft, updates>>

\* updateLoop, line 849: QueueUpdateDraw puts the callback in the queue
\* and waits while the queue is full
LQueue ==
    /\ lpc["update"] = "queue"
    /\ updates < QueueCap
    /\ updates' = updates + 1
    /\ lpc' = [lpc EXCEPT !["update"] = "idle"]
    /\ UNCHANGED <<lockFrame, tamu, rtmu, pbLeft>>

\* the event loop receives a key that the input capture handles under the
\* lock (lines 639-699)
UKey ==
    /\ lpc["ui"] = "idle"
    /\ lpc' = [lpc EXCEPT !["ui"] = "keyLock"]
    /\ UNCHANGED <<lockFrame, tamu, rtmu, pbLeft, updates>>

\* key handler: ta.mu.Lock(), e.g. line 640
UKeyLock ==
    /\ MuLock(tamu, "ui", "keyLock", "key")
    /\ UNCHANGED <<lockFrame, rtmu, pbLeft, updates>>

\* key handler: its assignments and ta.mu.Unlock(), e.g. lines 641-642
UKeyUnlock ==
    /\ MuUnlock(tamu, "ui", "key", "idle")
    /\ UNCHANGED <<lockFrame, rtmu, pbLeft, updates>>

\* the event loop takes a queued callback
UDequeue ==
    /\ lpc["ui"] = "idle"
    /\ updates > 0
    /\ updates' = updates - 1
    /\ lpc' = [lpc EXCEPT !["ui"] = "renderLock"]
    /\ UNCHANGED <<lockFrame, tamu, rtmu, pbLeft>>

\* the callback, line 850
URenderLock ==
    /\ MuRLock(tamu, "ui", "renderLock", "render")
    /\ UNCHANGED <<lockFrame, rtmu, pbLeft, updates>>

\* renderOverview, line 952: GetStats, line 77
UStatsLock ==
    /\ MuRLock(rtmu, "ui", "render", "stats")
    /\ UNCHANGED <<lockFrame, tamu, pbLeft, updates>>

\* GetStats, lines 78-145: the body and the deferred RUnlock
UStatsUnlock ==
    /\ MuRUnlock(rtmu, "ui", "stats", "rendered")
    /\ UNCHANGED <<lockFrame, tamu, pbLeft, updates>>

\* the callback: the rest of renderAll and the deferred RUnlock of line 851
URenderUnlock ==
    /\ MuRUnlock(tamu, "ui", "rendered", "idle")
    /\ UNCHANGED <<lockFrame, rtmu, pbLeft, updates>>

\* the steps of a goroutine that is inside one of its operations
IngestStep == PBLock \/ RecordLock \/ RecordUnlock \/ PBUnlock

UpdateStep ==
    LFlagsLock \/ LFlagsUnlock \/ LDataLock \/ LDataUnlock \/ LQueue

UIStep ==
    \/ UKeyLock \/ UKeyUnlock \/ UDequeue
    \/ URenderLock \/ UStatsLock \/ UStatsUnlock \/ URenderUnlock

DeadlockInit ==
    /\ Construct(BucketSizes, {MaxWindow}) /\ ApiStart /\ now = MaxTime
    /\ ConcIdle /\ HistIdle /\ TailIdle /\ NewTviewApp
    /\ NewControls(ClampRefresh(DefaultRefreshMs))

DeadlockNext ==
    PBCall \/ LTick \/ UKey \/ IngestStep \/ UpdateStep \/ UIStep

\* every goroutine is scheduled, a goroutine waiting for a mutex gets it
\* when it is released often enough, and the event loop's select takes a
\* queued callback although keys keep arriving; batches, ticks and keys
\* need not arrive
DeadlockSpec ==
    /\ DeadlockInit /\ [][DeadlockNext]_vars
    /\ SF_vars(IngestStep) /\ SF_vars(UpdateStep) /\ SF_vars(UIStep)
    /\ SF_vars(UDequeue)

\* ============================================================ properties
Slots == 0..(windowSize - 1)

RECURSIVE SumCounts(_)
SumCounts(S) ==
    IF S = {} THEN 0
    ELSE LET i == CHOOSE x \in S : TRUE
         IN  buckets[i] + SumCounts(S \ {i})

\* slots whose represented time is set and not older than the window
InWindowSlots ==
    {i \in Slots : timestamps[i] # 0
                   /\ now - timestamps[i] <= windowSize * bucketSize}

\* the in-window slots of the half of the window nearer to now / farther
NearSlots ==
    {i \in InWindowSlots :
        now - timestamps[i] <= bucketSize * (windowSize \div 2)}
FarSlots == InWindowSlots \ NearSlots

MaxCountIn(S) == CHOOSE m \in {buckets[i] : i \in S} :
                     \A i \in S : buckets[i] <= m

Returned == lastOp = "GetStats"
ReturnedNonZero == lastOp = "GetStats" /\ stats # ZeroStats

\* every event recorded since construction / the last Reset lies inside the
\* rolling window [now - windowSize * bucketSize, now]
AllEventsInWindow ==
    /\ minT # -1
    /\ now - windowSize * bucketSize <= minT
    /\ maxT <= now

\* C1: conservation - when every event recorded since the last Reset has its
\* timestamp inside the rolling window of now, GetStats().Total is the sum
\* of all recorded n, whatever the arrival order.
C1_Conservation ==
    (Returned /\ AllEventsInWindow) => stats.Total = sumN

\* C2: N writers each calling Record(now) M times concurrently: a GetStats
\* made after all of them ended returns Total = N * M in every interleaving.
C2_NoLostUpdate ==
    finalRead => stats.Total = NWriters * MRecords

C2_Witness ==
    /\ finalRead
    /\ rpc = "read"
    /\ \A w \in Writers : wdone[w] = MRecords
    /\ stats.Total = NWriters * MRecords

\* C3: totalCount always equals the sum of the counts held in all slots,
\* also across advances that overwrite a slot and across Reset.
C3_TotalIsSumOfBuckets ==
    totalCount = SumCounts(Slots)

\* an advance wrapped around and dropped a slot that held a count
C3_Witness ==
    /\ lastOp = "RecordN"
    /\ totalCount # sumN
    /\ totalCount # 0
    /\ \A i \in Slots : timestamps[i] # 0

\* C4: no two written slots carry the same bucket-aligned timestamp.
C4_UniqueBucketTimes ==
    \A i, j \in Slots :
        (i # j /\ timestamps[i] # 0 /\ timestamps[j] # 0)
            => timestamps[i] # timestamps[j]

\* C5: GetStats is a pure read - a GetStats call leaves buckets, timestamps,
\* currentIndex and totalCount (and the fixed parameters) as they were.
C5_GetStatsIsPure ==
    [][lastOp' = "GetStats" => UNCHANGED <<rtVars, cfgVars>>]_vars

\* GetStats returned statistics while a slot that aged out still held a count
C5_Witness ==
    /\ ReturnedNonZero
    /\ \E i \in Slots \ InWindowSlots : buckets[i] # 0

\* C6: RecordN never fails on any tracker NewRateTracker returns, for every
\* timestamp and every count: no call ends in a panic.
C6_NeverFails ==
    panicked = FALSE

\* C7: after Reset the tracker is in the state of a fresh one (all counts 0,
\* all timestamps unset, currentIndex 0, totalCount 0), and GetStats on a
\* fresh or reset tracker returns Stats{0,0,0,0,0}.
C7_ResetIsFresh ==
    /\ lastOp = "Reset" => RT = NewRateTracker(bucketSize, windowSize)
    /\ (Returned /\ RT = NewRateTracker(bucketSize, windowSize))
           => stats = ZeroStats

\* GetStats ran on a tracker that was reset after records had been made
C7_Witness ==
    /\ Returned
    /\ calls > 0
    /\ minT = -1
    /\ stats = ZeroStats

\* C8 as stated: whenever GetStats returns non-zero Stats, Peak times the
\* bucket duration equals the maximum count among the valid buckets.
C8_PeakIsMaxValid ==
    ReturnedNonZero =>
        /\ InWindowSlots # {}
        /\ stats.Peak.num * bucketSize
             = MaxCountIn(InWindowSlots) * stats.Peak.den

\* C8 amended: whenever GetStats returns non-zero Stats, Peak times the bucket
\* duration equals the maximum count among the valid buckets, or 0 when that
\* maximum is negative.
C8_PeakIsMaxValidOrZero ==
    ReturnedNonZero =>
        /\ InWindowSlots # {}
        /\ stats.Peak.num * bucketSize
             = Max(0, MaxCountIn(InWindowSlots)) * stats.Peak.den

\* the peak was taken while a slot outside the window held a larger count
C8_Witness ==
    /\ ReturnedNonZero
    /\ stats.Peak.num > 0
    /\ InWindowSlots # {}
    /\ \E i \in Slots \ InWindowSlots :
           buckets[i] > MaxCountIn(InWindowSlots)

\* C9: buckets older than the window contribute neither to Peak, nor to
\* Average, nor to either half of the trend split: the three are what the
\* in-window buckets alone give.
C9_OldEventsExcluded ==
    ReturnedNonZero =>
        /\ InWindowSlots # {}
        /\ stats.Peak
             = FDiv(Max(0, MaxCountIn(InWindowSlots)), bucketSize)
        /\ stats.Average
             = FDiv(SumCounts(InWindowSlots),
                    Cardinality(InWindowSlots) * bucketSize)
        /\ stats.TrendChange
             = TrendOf(SumCounts(NearSlots), SumCounts(FarSlots))

\* C10 as stated: TrendChange has the sign of (near half - far half), for
\* every distribution of counts, a far half with no events included.
C10_TrendSign ==
    Returned =>
        Sign(stats.TrendChange.num)
            = Sign(SumCounts(NearSlots) - SumCounts(FarSlots))

\* C10 amended: with non-negative bucket counts, when the far half of the
\* window holds events TrendChange has the sign of (near half - far half);
\* when the far half holds none, TrendChange is 0 whatever the near half.
C10_TrendSignGuarded ==
    (Returned /\ \A i \in Slots : buckets[i] >= 0) =>
        IF SumCounts(FarSlots) > 0
        THEN /\ stats.TrendChange.den > 0
             /\ Sign(stats.TrendChange.num)
                  = Sign(SumCounts(NearSlots) - SumCounts(FarSlots))
        ELSE stats.TrendChange = FZero

\* a rising trend was reported with events in both halves
C10_Witness ==
    /\ Returned
    /\ \A i \in Slots : buckets[i] >= 0
    /\ SumCounts(FarSlots) > 0
    /\ SumCounts(NearSlots) > SumCounts(FarSlots)
    /\ stats.TrendChange.num > 0

\* every event recorded since construction / the last Reset carries a
\* timestamp of one and the same bucket
OneBucketRecorded ==
    /\ minT # -1
    /\ Truncate(minT, bucketSize) = Truncate(maxT, bucketSize)

\* C11 as stated: on a fresh tracker, k events recorded with timestamps of
\* one bucket and then a query give Total = k and Current = k / bucket
\* duration, whenever the query is made.
C11_RateArithmetic ==
    (Returned /\ OneBucketRecorded) =>
        /\ stats.Total = sumN
        /\ stats.Current = FDiv(sumN, bucketSize)

\* C11 amended: on a fresh tracker, k events recorded with timestamps of one
\* bucket and a query made while that bucket's start is at most one window
\* back give Total = k and Current = k / bucket duration.
C11_RateArithmeticInWindow ==
    (/\ Returned
     /\ OneBucketRecorded
     /\ now - Truncate(minT, bucketSize) <= windowSize * bucketSize) =>
        /\ stats.Total = sumN
        /\ stats.Current = FDiv(sumN, bucketSize)

\* two events of one bucket were recorded and queried inside the window
C11_Witness ==
    /\ Returned
    /\ OneBucketRecorded
    /\ now - Truncate(minT, bucketSize) <= windowSize * bucketSize
    /\ calls >= 2
    /\ sumN = 2
    /\ stats.Total = 2

\* C13: after any sequence of RecordN calls the slot at currentIndex carries
\* the greatest represented time of all written slots.
C13_CurrentIsNewest ==
    \A i \in Slots :
        timestamps[i] # 0 => timestamps[currentIndex] >= timestamps[i]

\* C14: what GetStats returns counts no request older than the window: Total
\* is the sum of the in-window buckets and Current is the rate of the current
\* bucket only if that bucket is inside the window.
C14_OnlyWindowCounted ==
    ReturnedNonZero =>
        /\ stats.Total = SumCounts(InWindowSlots)
        /\ stats.Current
             = IF currentIndex \in InWindowSlots
               THEN FDiv(buckets[currentIndex], bucketSize)
               ELSE FZero

\* C15: when every recorded event carries a timestamp later than now,
\* GetStats reports Total = 0.
C15_FutureNotCounted ==
    (Returned /\ minT # -1 /\ minT > now) => stats.Total = 0

\* the logged calls, arriving in the order f
Reordered(f) == [i \in 1..Len(log) |-> log[f[i]]]

\* C12: the statistics GetStats returns after a multiset of events has been
\* recorded are the same for every order in which the RecordN calls arrive.
C12_OrderIndependent ==
    Returned =>
        \A f \in Permutations(1..Len(log)) :
            GetStatsResult(
                Replay(NewRateTracker(bucketSize, windowSize), Reordered(f)),
                now) = stats

\* C16: while GetStats holds the shared lock no writer is inside RecordN or
\* Reset, and the tracker it reads satisfies totalCount = sum of the bucket
\* counts.
C16_ReaderSeesWholeWrites ==
    (rpc \in {"rlocked", "read"}) =>
        /\ mu.writer = 0
        /\ totalCount = SumCounts(Slots)

\* GetStats has read a tracker with events in it, after a writer's advance
\* moved currentIndex, while the resetter is waiting for the exclusive lock
C16_Witness ==
    /\ rpc = "read"
    /\ lastOp = "GetStats"
    /\ stats.Total > 0
    /\ currentIndex > 0
    /\ xpc = "call"

\* C17: once the caller has closed done, the channel TailLines returned is
\* eventually closed, whatever the consumer does.
C17_CancelCloses == doneClosed ~> outClosed

\* C18: with fromEnd false the consumer receives at most LastLines lines of
\* the file as it was at the start, then lines appended later, all in file
\* order and none of them twice.
C18_NoDuplicateDelivery ==
    ~fromEnd =>
        /\ \A i, j \in 1..Len(delivered) :
               i < j => delivered[i] < delivered[j]
        /\ Cardinality({i \in 1..Len(delivered) : delivered[i] <= fileOld})
             <= LastLines

\* what GetStats would return for Total at this instant
TotalNow == GetStatsResult(RT, now).Total

\* every visitor of b carries a timestamp inside the rate window
InRateWindow(b) ==
    \A i \in 1..Len(b) :
        /\ b[i].Time # 0
        /\ now - b[i].Time >= 0
        /\ now - b[i].Time <= windowSize * bucketSize

\* C19: processBatch(b) with all of b inside the rate window makes the
\* tracker's Total grow by Len(b), appends b to allVisitors in order keeping
\* the newest VisitorCap entries, and leaves dataChanged true.
C19_ProcessBatch ==
    [][lastOp' = "processBatch" =>
          /\ InRateWindow(batch') => TotalNow' = TotalNow + Len(batch')
          /\ LET all == allVisitors \o batch'
             IN  allVisitors'
                   = [i \in 1..Min(Len(all), VisitorCap) |->
                        all[i + Len(all) - Min(Len(all), VisitorCap)]]
          /\ dataChanged']_vars

\* v passes the filters that are switched on
PassesFilters(v) ==
    /\ statusFilter > 0 => v.Status \div 100 = statusFilter
    /\ timeWindow > 0 => (v.Time # 0 /\ now - v.Time <= timeWindow)

\* applyFilters has just run, alone or inside processBatch or a key handler
Filtered == lastOp \in {"applyFilters", "key", "keyT", "processBatch"}

\* C20: after applyFilters, visitors is the subsequence of allVisitors, in
\* the original order, of the entries that pass the active filters (all of
\* allVisitors when both are off), and applyFilters leaves allVisitors as
\* it was.
C20_FiltersExact ==
    /\ [](Filtered =>
            /\ visitors = SelectSeq(allVisitors, PassesFilters)
            /\ (statusFilter = 0 /\ timeWindow = 0) => visitors = allVisitors)
    /\ [][lastOp' = "applyFilters" => allVisitors' = allVisitors]_vars

\* applyFilters dropped an entry for its status and one for its age, kept an
\* entry exactly as old as the window, and kept two entries in their order
C20_Witness ==
    /\ lastOp = "applyFilters"
    /\ statusFilter > 0
    /\ timeWindow > 0
    /\ Len(allVisitors) > Len(visitors)
    /\ \E i \in 1..Len(allVisitors) :
           /\ allVisitors[i].Status \div 100 = statusFilter
           /\ allVisitors[i].Time # 0
           /\ now - allVisitors[i].Time = timeWindow
    /\ \E i \in 1..Len(allVisitors) :
           allVisitors[i].Status \div 100 # statusFilter
    /\ Len(visitors) >= 1

\* C21: the refresh rate always lies between 100 ms and 10 s, whatever the
\* -refresh flag was and whatever '+' and '-' keys were pressed.
C21_RefreshInRange ==
    MinRefreshRate <= refreshRate /\ refreshRate <= MaxRefreshRate

\* C24: after any Record, RecordN and Reset calls both arrays have exactly
\* windowSize slots, the parameters are those of the constructor, and the
\* cursor lies inside the arrays: 0 <= currentIndex < windowSize.
C24_FixedMemory ==
    ~panicked =>
        /\ DOMAIN buckets = 0..(windowSize - 1)
        /\ DOMAIN timestamps = 0..(windowSize - 1)
        /\ 0 <= currentIndex
        /\ currentIndex < windowSize

\* the arguments of the RecordN call that has just been logged, and its
\* bucket time
LastT == log'[Len(log')][1]
LastN == log'[Len(log')][2]
LastBucketTime == Truncate(LastT, bucketSize)

\* what the claim says of a RecordN step that must advance, and of one whose
\* bucket time is not newer than the current slot's
AdvanceStep ==
    LET cur == timestamps[currentIndex]
        ni  == (currentIndex + 1) % windowSize
    IN  /\ LastBucketTime - cur >= bucketSize =>
              /\ currentIndex' = ni
              /\ buckets'[ni] = LastN
              /\ timestamps'[ni] = LastBucketTime
              /\ totalCount' = totalCount - buckets[ni] + LastN
              /\ \A i \in Slots \ {ni} :
                     /\ buckets'[i] = buckets[i]
                     /\ timestamps'[i] = timestamps[i]
        /\ LastBucketTime <= cur => currentIndex' = currentIndex

\* C25 (as stated): a RecordN call on a tracker that has been written, with
\* a bucket time at least one bucketDuration after the current slot's time,
\* moves currentIndex by exactly one slot modulo windowSize, clears only the
\* slot it lands on and leaves every other slot as it was; a bucket time
\* that is not newer leaves currentIndex where it was.
C25_AdvanceStep ==
    [][(lastOp' = "RecordN" /\ Len(log) > 0) => AdvanceStep]_vars

\* C25 (amended): the same for a tracker whose current slot carries a set
\* time.
C25_AdvanceStepFromSetSlot ==
    [][(lastOp' = "RecordN" /\ ~IsZero(timestamps[currentIndex]))
          => AdvanceStep]_vars

\* a call two bucket periods after the current slot's time has moved the
\* cursor by one slot onto a slot that held a count, which left the total
C25_Witness ==
    /\ lastOp = "RecordN"
    /\ Len(log) >= 2
    /\ ~IsZero(log[Len(log) - 1][1])
    /\ Truncate(log[Len(log)][1], bucketSize)
         - Truncate(log[Len(log) - 1][1], bucketSize) > bucketSize
    /\ timestamps[currentIndex] = Truncate(log[Len(log)][1], bucketSize)
    /\ totalCount < sumN

Written == minT # -1

\* C27 (as stated): GetStats returns the all-zero Stats only if no bucket
\* has ever been written; once a RecordN call has been made since
\* construction or the last Reset, the Total it returns is totalCount.
C27_ZeroOnlyIfUnwritten ==
    Returned =>
        /\ stats = ZeroStats => ~Written
        /\ Written => stats.Total = totalCount

\* C27 (amended): GetStats returns the all-zero Stats exactly when
\* totalCount is 0 or no slot is valid; otherwise its Total is totalCount.
C27_ZeroIffNothingValid ==
    Returned =>
        /\ stats = ZeroStats <=> (totalCount = 0 \/ InWindowSlots = {})
        /\ stats # ZeroStats => stats.Total = totalCount

\* a query after the only written bucket has aged out of the window
C27_Witness ==
    /\ Returned
    /\ Written
    /\ totalCount > 0
    /\ \E i \in Slots : timestamps[i] # 0
    /\ InWindowSlots = {}
    /\ stats = ZeroStats

\* the bucket time of the k-th logged call
BucketOf(k) == Truncate(log[k][1], bucketSize)

\* every logged call falls into the bucket of the call before it or into
\* the bucket right after that one
SteppingByOneBucket ==
    \A k \in 2..Len(log) : BucketOf(k) - BucketOf(k - 1) \in {0, bucketSize}

\* the logged calls whose bucket is one of the windowSize newest buckets
NewestCalls ==
    {k \in 1..Len(log) :
        BucketOf(k) > BucketOf(Len(log)) - windowSize * bucketSize}

RECURSIVE SumLogged(_)
SumLogged(K) ==
    IF K = {} THEN 0
    ELSE LET k == CHOOSE x \in K : TRUE
         IN  log[k][2] + SumLogged(K \ {k})

\* C28: fed with non-decreasing timestamps that step forward one bucket at
\* a time, the tracker holds exactly the windowSize newest buckets:
\* totalCount is the sum of the counts recorded in them, each written slot
\* holds the count of its bucket, and the counts of older buckets are gone.
C28_HoldsNewestBuckets ==
    (Len(log) > 0 /\ SteppingByOneBucket) =>
        /\ totalCount = SumLogged(NewestCalls)
        /\ {timestamps[i] : i \in Slots} \ {0}
             = {BucketOf(k) : k \in NewestCalls} \ {0}
        /\ \A i \in Slots :
               timestamps[i] # 0 =>
                   buckets[i]
                     = SumLogged({k \in NewestCalls :
                                     BucketOf(k) = timestamps[i]})

\* more than windowSize distinct buckets were recorded one after the other
\* and the count of the oldest is no longer in the total
C28_Witness ==
    /\ Len(log) > 0
    /\ SteppingByOneBucket
    /\ windowSize > 1
    /\ Cardinality({BucketOf(k) : k \in 1..Len(log)}) > windowSize
    /\ totalCount < sumN
    /\ currentIndex = 0

\* the written slots in ring order, from the one after currentIndex round
\* to currentIndex
RingSlot(j) == (currentIndex + j) % windowSize
WrittenRing == {j \in 1..windowSize : timestamps[RingSlot(j)] # 0}

\* C29: fed with non-decreasing timestamps, the written slots read in ring
\* order from the oldest to currentIndex carry strictly increasing times
\* that are multiples of bucketDuration; no two slots share a time.
C29_RingIncreasing ==
    /\ \A j \in WrittenRing : timestamps[RingSlot(j)] % bucketSize = 0
    /\ \A j, k \in WrittenRing :
           j < k => timestamps[RingSlot(j)] < timestamps[RingSlot(k)]

\* the ring has wrapped: the oldest written slot lies after currentIndex,
\* and a timestamp inside a bucket was recorded
C29_Witness ==
    /\ windowSize > 1
    /\ Cardinality(WrittenRing) = windowSize
    /\ currentIndex = 0
    /\ Len(log) > windowSize
    /\ \E k \in 1..Len(log) : log[k][1] % bucketSize # 0

\* C30: a RecordN call whose bucket time is earlier than the current slot's
\* time adds its count to the slot at currentIndex and leaves that slot's
\* time as it was; no RecordN call moves a slot's time backwards.
C30_OlderEventKeepsTime ==
    [][lastOp' = "RecordN" =>
          /\ (/\ ~IsZero(timestamps[currentIndex])
               /\ LastBucketTime < timestamps[currentIndex]) =>
                  /\ currentIndex' = currentIndex
                  /\ buckets'[currentIndex]
                       = buckets[currentIndex] + LastN
                  /\ timestamps'[currentIndex] = timestamps[currentIndex]
          /\ \A i \in Slots : timestamps'[i] >= timestamps[i]]_vars

\* the presets in the order the 't' key visits them from the start
C22_Cycle == <<0, 5, 30, 60, 180, 720, 1440, 10080, 43200>>

\* C22: the dashboard starts at All time; every 't' moves the window to the
\* next of 5m, 30m, 1h, 3h, 12h, 1d, 7d, 30d, All time and wraps, so nine
\* presses lead back; the window is always the preset at timeWindowIndex,
\* and after a press visitors is allVisitors filtered for the new window.
C22_TimeWindowToggle ==
    /\ timeWindow = 0
    /\ [](timeWindow = timeWindowPresets[timeWindowIndex + 1])
    /\ [](lastOp = "keyT" => visitors = SelectSeq(allVisitors, PassesFilters))
    /\ [][lastOp' = "keyT" =>
            \E i \in 1..Len(C22_Cycle) :
                /\ timeWindow = C22_Cycle[i]
                /\ timeWindow' = C22_Cycle[(i % Len(C22_Cycle)) + 1]]_vars

\* the ninth press in a row: the window is All time again, the status filter
\* still applied
C22_Witness ==
    /\ lastOp = "keyT"
    /\ timeWindowIndex = Len(timeWindowPresets) - 1
    /\ timeWindow = 0
    /\ statusFilter > 0
    /\ Len(visitors) > 0
    /\ Len(visitors) < Len(allVisitors)

\* C23: once updateLoop runs, after a '+' or '-' key the period of its
\* ticker is the new refresh rate.
C23_TickerFollowsKeys ==
    (tickerInterval > 0 /\ lastOp \in {"key+", "key-"})
        => tickerInterval = refreshRate

\* a <= b for two float64 values held as fractions with positive denominators
FLeq(a, b) == a.num * b.den <= b.num * a.den

\* C31: for a tracker fed only non-negative counts, every Stats value that
\* GetStats returns has Current <= Peak, Average <= Peak and Total >= 0.
C31_RatesBelowPeak ==
    Returned =>
        /\ FLeq(stats.Current, stats.Peak)
        /\ FLeq(stats.Average, stats.Peak)
        /\ stats.Total >= 0

\* the visitors parsed from the lines of ls, in order
RECURSIVE ParsedOf(_)
ParsedOf(ls) ==
    IF ls = <<>> THEN <<>> ELSE Parse(Head(ls)) \o ParsedOf(Tail(ls))

\* what readLines keeps true of its batch and of the Record calls made
BatchingKept ==
    /\ log \o RecordCalls(rbatch) = RecordCalls(ParsedOf(delivered))
    /\ Len(rbatch) < MaxBatch
    /\ Len(batch) <= MaxBatch
    /\ rlpc = "done" => log = RecordCalls(ParsedOf(delivered))

\* C32: the visitors handed to processBatch so far, followed by those
\* waiting in the batch, are the parsed lines received, once each and in
\* arrival order; no batch holds more than the limit; and a batch that is
\* not empty is always handed on in the end.
C32_Batching ==
    /\ BatchingKept
    /\ [][BatchingKept']_vars
    /\ (Len(rbatch) > 0) ~> (Len(rbatch) = 0)

\* a full batch was handed on when it reached the limit, and the visitor
\* received after it went out on a tick
C32_Witness ==
    /\ lastOp = "batchTick"
    /\ Len(log) > MaxBatch
    /\ rbatch = <<>>
    /\ Len(batch) < MaxBatch
    /\ Len(batch) > 0

\* C33: a tick of the update loop decides on a redraw exactly when the app
\* is not paused and dataChanged is set, and leaves dataChanged false; the
\* maps are recomputed and a redraw queued only after such a decision, so
\* a tick that finds the app paused queues none.
C33_UpdateLoopGuard ==
    /\ [][lastOp' = "tick" =>
            /\ (ulpc' = "redraw") <=> (~paused /\ dataChanged)
            /\ ~dataChanged']_vars
    /\ [][lastOp' = "updateLoop" => ulpc = "redraw"]_vars

\* C33 as stated: no redraw is queued while the app is paused.
C33_NoRedrawWhilePaused ==
    [][lastOp' = "updateLoop" => ~paused]_vars

\* a tick found the data changed but the app paused: no redraw is due
C33_Witness ==
    /\ lastOp = "tick"
    /\ paused
    /\ ulpc = "wait"
    /\ ~dataChanged
    /\ drawn[1] # statusFilter

\* the screen does not show the filters and visitors now in force
Stale == drawn # <<statusFilter, timeWindow, visitors>>

\* C34: a change made while the app was paused is not lost: once the app
\* runs again, the update loop redraws the screen with it (or the user
\* pauses again first), without a further change being needed.
C34_NoChangeLost ==
    (Stale /\ ~paused) ~> (~Stale \/ paused)

\* C35: the overview shows a rate only when the Total of GetStats is
\* above 0, and then the glyph is the increasing one exactly when
\* TrendChange > 5, the decreasing one exactly when TrendChange < -5 and
\* the stable one otherwise, 5 and -5 included.
C35_TrendIndicator ==
    lastOp = "renderOverview" =>
        /\ rateText # "" => stats.Total > 0
        /\ stats.Total > 0 =>
            LET tc == stats.TrendChange
            IN  /\ rateText = "increasing" <=> tc.num > 5 * tc.den
                /\ rateText = "decreasing" <=> tc.num < (-5) * tc.den
                /\ rateText = "stable" <=>
                        /\ (-5) * tc.den <= tc.num
                        /\ tc.num <= 5 * tc.den

\* the overview rendered with TrendChange exactly 5: the stable glyph
C35_Witness ==
    /\ lastOp = "renderOverview"
    /\ stats.Total > 0
    /\ stats.TrendChange = [num |-> 5, den |-> 1]
    /\ rateText = "stable"

\* a goroutine that holds or waits for the tracker's lock holds ta.mu
LockOrder ==
    \A g \in Goroutines :
        (rtmu.wm = g \/ g \in rtmu.r \cup rtmu.rw) =>
            \/ tamu.wm = g /\ tamu.held
            \/ g \in tamu.r

\* C36: processBatch, the update loop, the key handler and the render
\* callback take ta.mu before the tracker's lock and never the reverse,
\* and in every interleaving each of them, once begun, completes.
C36_NoDeadlock ==
    /\ LockOrder /\ [][LockOrder']_vars
    /\ \A g \in Goroutines : (lpc[g] # "idle") ~> (lpc[g] = "idle")

\* processBatch holds both locks while the render callback waits for
\* ta.mu and the update loop waits for room in the full queue
C36_Witness ==
    /\ lpc["ingest"] = "record"
    /\ "ui" \in tamu.rw
    /\ lpc["update"] = "queue"
    /\ updates = QueueCap

\* how far the tailer's goroutine has come
TailRank ==
    CASE tpc \in {"idle", "start"} -> 0
      [] tpc = "scan" -> 1
      [] tpc = "history" -> 2
      [] tpc = "open" -> 3
      [] tpc \in {"select", "send"} -> 4
      [] OTHER -> 5

\* a step that sends on out: the channel is open, and the line is the next
\* historical one sent by readLastNLines or, with readLastNLines over and
\* nothing of the history left to send, the line taken from t.Lines
SendStep ==
    Len(out') > Len(out) =>
        /\ ~outClosed /\ ~outClosed'
        /\ \/ /\ tpc = "history"
              /\ hist # <<>>
              /\ out' = Append(out, Head(hist))
           \/ /\ tpc = "send"
              /\ hist = <<>>
              /\ out' = Append(out, tline)

\* C37: the tailer's channel is closed exactly when the goroutine returns,
\* on each of its ways out, so once; a closed channel stays closed, is
\* not closed again and nothing more is sent on it; the goroutine never
\* goes back from tailing to the historical lines, so every historical
\* line sent is sent before the first tailed line.
C37_ClosedOnceHistoryFirst ==
    /\ (outClosed <=> tpc = "returned")
    /\ [][/\ outClosed' <=> tpc' = "returned"
          /\ outClosed => outClosed' /\ tpc' = tpc /\ Len(out') <= Len(out)
          /\ TailRank' >= TailRank
          /\ SendStep]_vars

\* historical line 1, then the same line from the tail, then t.Lines was
\* closed and the goroutine closed out and returned
C37_Witness ==
    /\ ~fromEnd
    /\ linesClosed
    /\ outClosed
    /\ tpc = "returned"
    /\ delivered \o out = <<1, 1>>

====
